---------------------------- MODULE Spec2Model ----------------------------
(***************************************************************************)
(* A model of the feishu billing importer:                                 *)
(*   backend/app/core/feishu_doc.py  FeishuDocClient (token cache, sheet   *)
(*       resolution, paginated record search, single and batch insert)     *)
(*   backend/importer.py             convert_fields, import_command,       *)
(*       list_command                                                      *)
(*                                                                         *)
(* Conventions.  Python text is a sequence of one-character strings, so    *)
(* that strip, the 8-digit prefix test and split(',') are computed on      *)
(* characters; a character outside ASCII is written as U+ and its code     *)
(* point ("U+3000" is the ideographic space), and so are the control       *)
(* characters TLA+ has no escape for.  Python's None is the string None    *)
(* below.  The two kind                                                    *)
(* labels of the ledger, '收入' (income) and '支出' (expense), are written   *)
(* in pinyin letters: <<"S","R">> and <<"Z","C">>.  The remote store is    *)
(* the environment: every response is chosen from the sets named           *)
(* ...Responses.                                                           *)
(***************************************************************************)
EXTENDS Integers, Sequences, FiniteSets, TLC

(***************************************************************************)
(* Bounds of the model.                                                    *)
(***************************************************************************)
\* CSV files found in the extraction directory of one import run
MaxFiles == 2
\* ledger lines read in one import run (over all files)
MaxLines == 3
\* pages naming a next page that the store serves to one record search; the
\* store may still end the search, or fail it, after that many
MaxPages == 3
\* client operations called on one client by a direct caller
MaxOps == 2

(***************************************************************************)
(* Python values.                                                          *)
(***************************************************************************)
\* Python's None
None == "None"

\* bool(x) for the strings the code tests for truth: None and '' are false
Truthy(x) == x # None /\ x # ""

\* the decimal digits of Unicode (category Nd), each run going from zero to
\* nine: ASCII, Arabic-Indic, ..., fullwidth (U+FF10 to U+FF19), ...
DigitRuns ==
    <<<<"0", "1", "2", "3", "4",
         "5", "6", "7", "8", "9">>,
       <<"U+0660", "U+0661", "U+0662", "U+0663", "U+0664",
         "U+0665", "U+0666", "U+0667", "U+0668", "U+0669">>,
       <<"U+06F0", "U+06F1", "U+06F2", "U+06F3", "U+06F4",
         "U+06F5", "U+06F6", "U+06F7", "U+06F8", "U+06F9">>,
       <<"U+07C0", "U+07C1", "U+07C2", "U+07C3", "U+07C4",
         "U+07C5", "U+07C6", "U+07C7", "U+07C8", "U+07C9">>,
       <<"U+0966", "U+0967", "U+0968", "U+0969", "U+096A",
         "U+096B", "U+096C", "U+096D", "U+096E", "U+096F">>,
       <<"U+09E6", "U+09E7", "U+09E8", "U+09E9", "U+09EA",
         "U+09EB", "U+09EC", "U+09ED", "U+09EE", "U+09EF">>,
       <<"U+0A66", "U+0A67", "U+0A68", "U+0A69", "U+0A6A",
         "U+0A6B", "U+0A6C", "U+0A6D", "U+0A6E", "U+0A6F">>,
       <<"U+0AE6", "U+0AE7", "U+0AE8", "U+0AE9", "U+0AEA",
         "U+0AEB", "U+0AEC", "U+0AED", "U+0AEE", "U+0AEF">>,
       <<"U+0B66", "U+0B67", "U+0B68", "U+0B69", "U+0B6A",
         "U+0B6B", "U+0B6C", "U+0B6D", "U+0B6E", "U+0B6F">>,
       <<"U+0BE6", "U+0BE7", "U+0BE8", "U+0BE9", "U+0BEA",
         "U+0BEB", "U+0BEC", "U+0BED", "U+0BEE", "U+0BEF">>,
       <<"U+0C66", "U+0C67", "U+0C68", "U+0C69", "U+0C6A",
         "U+0C6B", "U+0C6C", "U+0C6D", "U+0C6E", "U+0C6F">>,
       <<"U+0CE6", "U+0CE7", "U+0CE8", "U+0CE9", "U+0CEA",
         "U+0CEB", "U+0CEC", "U+0CED", "U+0CEE", "U+0CEF">>,
       <<"U+0D66", "U+0D67", "U+0D68", "U+0D69", "U+0D6A",
         "U+0D6B", "U+0D6C", "U+0D6D", "U+0D6E", "U+0D6F">>,
       <<"U+0DE6", "U+0DE7", "U+0DE8", "U+0DE9", "U+0DEA",
         "U+0DEB", "U+0DEC", "U+0DED", "U+0DEE", "U+0DEF">>,
       <<"U+0E50", "U+0E51", "U+0E52", "U+0E53", "U+0E54",
         "U+0E55", "U+0E56", "U+0E57", "U+0E58", "U+0E59">>,
       <<"U+0ED0", "U+0ED1", "U+0ED2", "U+0ED3", "U+0ED4",
         "U+0ED5", "U+0ED6", "U+0ED7", "U+0ED8", "U+0ED9">>,
       <<"U+0F20", "U+0F21", "U+0F22", "U+0F23", "U+0F24",
         "U+0F25", "U+0F26", "U+0F27", "U+0F28", "U+0F29">>,
       <<"U+1040", "U+1041", "U+1042", "U+1043", "U+1044",
         "U+1045", "U+1046", "U+1047", "U+1048", "U+1049">>,
       <<"U+1090", "U+1091", "U+1092", "U+1093", "U+1094",
         "U+1095", "U+1096", "U+1097", "U+1098", "U+1099">>,
       <<"U+17E0", "U+17E1", "U+17E2", "U+17E3", "U+17E4",
         "U+17E5", "U+17E6", "U+17E7", "U+17E8", "U+17E9">>,
       <<"U+1810", "U+1811", "U+1812", "U+1813", "U+1814",
         "U+1815", "U+1816", "U+1817", "U+1818", "U+1819">>,
       <<"U+1946", "U+1947", "U+1948", "U+1949", "U+194A",
         "U+194B", "U+194C", "U+194D", "U+194E", "U+194F">>,
       <<"U+19D0", "U+19D1", "U+19D2", "U+19D3", "U+19D4",
         "U+19D5", "U+19D6", "U+19D7", "U+19D8", "U+19D9">>,
       <<"U+1A80", "U+1A81", "U+1A82", "U+1A83", "U+1A84",
         "U+1A85", "U+1A86", "U+1A87", "U+1A88", "U+1A89">>,
       <<"U+1A90", "U+1A91", "U+1A92", "U+1A93", "U+1A94",
         "U+1A95", "U+1A96", "U+1A97", "U+1A98", "U+1A99">>,
       <<"U+1B50", "U+1B51", "U+1B52", "U+1B53", "U+1B54",
         "U+1B55", "U+1B56", "U+1B57", "U+1B58", "U+1B59">>,
       <<"U+1BB0", "U+1BB1", "U+1BB2", "U+1BB3", "U+1BB4",
         "U+1BB5", "U+1BB6", "U+1BB7", "U+1BB8", "U+1BB9">>,
       <<"U+1C40", "U+1C41", "U+1C42", "U+1C43", "U+1C44",
         "U+1C45", "U+1C46", "U+1C47", "U+1C48", "U+1C49">>,
       <<"U+1C50", "U+1C51", "U+1C52", "U+1C53", "U+1C54",
         "U+1C55", "U+1C56", "U+1C57", "U+1C58", "U+1C59">>,
       <<"U+A620", "U+A621", "U+A622", "U+A623", "U+A624",
         "U+A625", "U+A626", "U+A627", "U+A628", "U+A629">>,
       <<"U+A8D0", "U+A8D1", "U+A8D2", "U+A8D3", "U+A8D4",
         "U+A8D5", "U+A8D6", "U+A8D7", "U+A8D8", "U+A8D9">>,
       <<"U+A900", "U+A901", "U+A902", "U+A903", "U+A904",
         "U+A905", "U+A906", "U+A907", "U+A908", "U+A909">>,
       <<"U+A9D0", "U+A9D1", "U+A9D2", "U+A9D3", "U+A9D4",
         "U+A9D5", "U+A9D6", "U+A9D7", "U+A9D8", "U+A9D9">>,
       <<"U+A9F0", "U+A9F1", "U+A9F2", "U+A9F3", "U+A9F4",
         "U+A9F5", "U+A9F6", "U+A9F7", "U+A9F8", "U+A9F9">>,
       <<"U+AA50", "U+AA51", "U+AA52", "U+AA53", "U+AA54",
         "U+AA55", "U+AA56", "U+AA57", "U+AA58", "U+AA59">>,
       <<"U+ABF0", "U+ABF1", "U+ABF2", "U+ABF3", "U+ABF4",
         "U+ABF5", "U+ABF6", "U+ABF7", "U+ABF8", "U+ABF9">>,
       <<"U+FF10", "U+FF11", "U+FF12", "U+FF13", "U+FF14",
         "U+FF15", "U+FF16", "U+FF17", "U+FF18", "U+FF19">>,
       <<"U+104A0", "U+104A1", "U+104A2", "U+104A3", "U+104A4",
         "U+104A5", "U+104A6", "U+104A7", "U+104A8", "U+104A9">>,
       <<"U+10D30", "U+10D31", "U+10D32", "U+10D33", "U+10D34",
         "U+10D35", "U+10D36", "U+10D37", "U+10D38", "U+10D39">>,
       <<"U+11066", "U+11067", "U+11068", "U+11069", "U+1106A",
         "U+1106B", "U+1106C", "U+1106D", "U+1106E", "U+1106F">>,
       <<"U+110F0", "U+110F1", "U+110F2", "U+110F3", "U+110F4",
         "U+110F5", "U+110F6", "U+110F7", "U+110F8", "U+110F9">>,
       <<"U+11136", "U+11137", "U+11138", "U+11139", "U+1113A",
         "U+1113B", "U+1113C", "U+1113D", "U+1113E", "U+1113F">>,
       <<"U+111D0", "U+111D1", "U+111D2", "U+111D3", "U+111D4",
         "U+111D5", "U+111D6", "U+111D7", "U+111D8", "U+111D9">>,
       <<"U+112F0", "U+112F1", "U+112F2", "U+112F3", "U+112F4",
         "U+112F5", "U+112F6", "U+112F7", "U+112F8", "U+112F9">>,
       <<"U+11450", "U+11451", "U+11452", "U+11453", "U+11454",
         "U+11455", "U+11456", "U+11457", "U+11458", "U+11459">>,
       <<"U+114D0", "U+114D1", "U+114D2", "U+114D3", "U+114D4",
         "U+114D5", "U+114D6", "U+114D7", "U+114D8", "U+114D9">>,
       <<"U+11650", "U+11651", "U+11652", "U+11653", "U+11654",
         "U+11655", "U+11656", "U+11657", "U+11658", "U+11659">>,
       <<"U+116C0", "U+116C1", "U+116C2", "U+116C3", "U+116C4",
         "U+116C5", "U+116C6", "U+116C7", "U+116C8", "U+116C9">>,
       <<"U+11730", "U+11731", "U+11732", "U+11733", "U+11734",
         "U+11735", "U+11736", "U+11737", "U+11738", "U+11739">>,
       <<"U+118E0", "U+118E1", "U+118E2", "U+118E3", "U+118E4",
         "U+118E5", "U+118E6", "U+118E7", "U+118E8", "U+118E9">>,
       <<"U+11950", "U+11951", "U+11952", "U+11953", "U+11954",
         "U+11955", "U+11956", "U+11957", "U+11958", "U+11959">>,
       <<"U+11C50", "U+11C51", "U+11C52", "U+11C53", "U+11C54",
         "U+11C55", "U+11C56", "U+11C57", "U+11C58", "U+11C59">>,
       <<"U+11D50", "U+11D51", "U+11D52", "U+11D53", "U+11D54",
         "U+11D55", "U+11D56", "U+11D57", "U+11D58", "U+11D59">>,
       <<"U+11DA0", "U+11DA1", "U+11DA2", "U+11DA3", "U+11DA4",
         "U+11DA5", "U+11DA6", "U+11DA7", "U+11DA8", "U+11DA9">>,
       <<"U+16A60", "U+16A61", "U+16A62", "U+16A63", "U+16A64",
         "U+16A65", "U+16A66", "U+16A67", "U+16A68", "U+16A69">>,
       <<"U+16AC0", "U+16AC1", "U+16AC2", "U+16AC3", "U+16AC4",
         "U+16AC5", "U+16AC6", "U+16AC7", "U+16AC8", "U+16AC9">>,
       <<"U+16B50", "U+16B51", "U+16B52", "U+16B53", "U+16B54",
         "U+16B55", "U+16B56", "U+16B57", "U+16B58", "U+16B59">>,
       <<"U+1D7CE", "U+1D7CF", "U+1D7D0", "U+1D7D1", "U+1D7D2",
         "U+1D7D3", "U+1D7D4", "U+1D7D5", "U+1D7D6", "U+1D7D7">>,
       <<"U+1D7D8", "U+1D7D9", "U+1D7DA", "U+1D7DB", "U+1D7DC",
         "U+1D7DD", "U+1D7DE", "U+1D7DF", "U+1D7E0", "U+1D7E1">>,
       <<"U+1D7E2", "U+1D7E3", "U+1D7E4", "U+1D7E5", "U+1D7E6",
         "U+1D7E7", "U+1D7E8", "U+1D7E9", "U+1D7EA", "U+1D7EB">>,
       <<"U+1D7EC", "U+1D7ED", "U+1D7EE", "U+1D7EF", "U+1D7F0",
         "U+1D7F1", "U+1D7F2", "U+1D7F3", "U+1D7F4", "U+1D7F5">>,
       <<"U+1D7F6", "U+1D7F7", "U+1D7F8", "U+1D7F9", "U+1D7FA",
         "U+1D7FB", "U+1D7FC", "U+1D7FD", "U+1D7FE", "U+1D7FF">>,
       <<"U+1E140", "U+1E141", "U+1E142", "U+1E143", "U+1E144",
         "U+1E145", "U+1E146", "U+1E147", "U+1E148", "U+1E149">>,
       <<"U+1E2F0", "U+1E2F1", "U+1E2F2", "U+1E2F3", "U+1E2F4",
         "U+1E2F5", "U+1E2F6", "U+1E2F7", "U+1E2F8", "U+1E2F9">>,
       <<"U+1E950", "U+1E951", "U+1E952", "U+1E953", "U+1E954",
         "U+1E955", "U+1E956", "U+1E957", "U+1E958", "U+1E959">>,
       <<"U+1FBF0", "U+1FBF1", "U+1FBF2", "U+1FBF3", "U+1FBF4",
         "U+1FBF5", "U+1FBF6", "U+1FBF7", "U+1FBF8", "U+1FBF9">> >>

\* '0' to '9'
AsciiDigits == {DigitRuns[1][i] : i \in 1..10}

\* what \d matches in a pattern over str, and what int() and float() read as
\* a digit
Digits == {DigitRuns[r][i] : r \in DOMAIN DigitRuns, i \in 1..10}

\* the characters for which str.isspace() holds: what str.strip() removes
\* from both ends and what \s matches ("U+000B" is '\x0b')
Whitespace ==
    {" ", "\t", "\n", "\r", "\f", "U+000B", "U+001C", "U+001D", "U+001E",
     "U+001F", "U+0085", "U+00A0", "U+1680", "U+2000", "U+2001", "U+2002",
     "U+2003", "U+2004", "U+2005", "U+2006", "U+2007", "U+2008", "U+2009",
     "U+200A", "U+2028", "U+2029", "U+202F", "U+205F", "U+3000"}

\* what float() removes from both ends of its text: the whitespace of
\* str.isspace() but for the four separators '\x1c' to '\x1f'
FloatWhitespace == Whitespace \ {"U+001C", "U+001D", "U+001E", "U+001F"}

RECURSIVE LStripOf(_, _)
LStripOf(s, cs) ==
    IF s # <<>> /\ Head(s) \in cs THEN LStripOf(Tail(s), cs) ELSE s

RECURSIVE RStripOf(_, _)
RStripOf(s, cs) ==
    IF s # <<>> /\ s[Len(s)] \in cs
    THEN RStripOf(SubSeq(s, 1, Len(s) - 1), cs)
    ELSE s

LStrip(s) == LStripOf(s, Whitespace)

RStrip(s) == RStripOf(s, Whitespace)

\* str.strip()
Strip(s) == RStrip(LStrip(s))

\* a mutant of MatchDigits: seven leading digits are enough
MatchSevenDigits(s) ==
    /\ Len(s) >= 7
    /\ \A i \in 1..7 : s[i] \in Digits

\* re.match(r'^\d{8}', s): the first eight characters are decimal digits, of
\* ASCII or of any other script
Match8 == 8
MatchDigits(s) ==
    /\ Len(s) >= Match8
    /\ \A i \in 1..Match8 : s[i] \in Digits

\* str.split(','): the fields between the commas, empty fields kept
RECURSIVE SplitFrom(_, _, _)
SplitFrom(s, i, cur) ==
    IF i > Len(s) THEN <<cur>>
    ELSE IF s[i] = "," THEN <<cur>> \o SplitFrom(s, i + 1, <<>>)
    ELSE SplitFrom(s, i + 1, Append(cur, s[i]))

Split(s) == SplitFrom(s, 1, <<>>)


(***************************************************************************)
(* Dates and numbers.                                                      *)
(***************************************************************************)
DigitSeq == DigitRuns[1]

DigitChar(n) == DigitSeq[n + 1]

\* the value of a decimal digit of any script
DigitVal(c) ==
    CHOOSE n \in 0..9 : \E r \in DOMAIN DigitRuns : DigitRuns[r][n + 1] = c

\* '%02d'
TwoDigits(n) == <<DigitChar((n \div 10) % 10), DigitChar(n % 10)>>

\* the number a run of digit characters denotes
RECURSIVE DigitsValue(_)
DigitsValue(s) ==
    IF s = <<>> THEN 0
    ELSE DigitsValue(SubSeq(s, 1, Len(s) - 1)) * 10 + DigitVal(s[Len(s)])

AllDigits(s) == \A i \in 1..Len(s) : s[i] \in Digits

IsLeap(y) == (y % 4 = 0 /\ y % 100 # 0) \/ y % 400 = 0

DaysInMonth(y, m) ==
    IF m = 2 THEN (IF IsLeap(y) THEN 29 ELSE 28)
    ELSE IF m \in {4, 6, 9, 11} THEN 30 ELSE 31

\* days from 1970-01-01 to the civil date y-m-d
DaysFromCivil(y, m, d) ==
    LET yy  == IF m <= 2 THEN y - 1 ELSE y
        era == yy \div 400
        yoe == yy - era * 400
        mp  == (m + 9) % 12
        doy == (153 * mp + 2) \div 5 + d - 1
        doe == yoe * 365 + yoe \div 4 - yoe \div 100 + doy
    IN  era * 146097 + doe - 719468

\* the time zones a process of this model runs in, as seconds east of UTC:
\* UTC, and UTC+8 (Asia/Shanghai as it has been since 1992)
UtcOffsets == {0, 28800}

\* naive datetime.timestamp() raises ValueError instead of returning: the
\* search for the local time looks a day back, before year 1, or the zone's
\* offset carries the time past year 9999
TimestampRaises(dt, off) ==
    \/ dt.year = 1 /\ dt.month = 1 /\ dt.day = 1
    \/ /\ dt.year = 9999 /\ dt.month = 12 /\ dt.day = 31
       /\ dt.hour * 3600 + dt.minute * 60 + dt.second + off >= 86400

\* naive datetime.timestamp() in a zone off seconds east of UTC: the time
\* since the epoch, as whole days, seconds of the day and microseconds
Timestamp(dt, off) ==
    LET sod == dt.hour * 3600 + dt.minute * 60 + dt.second - off
    IN  [days   |-> DaysFromCivil(dt.year, dt.month, dt.day) + sod \div 86400,
         secs   |-> sod % 86400,
         micros |-> dt.microsecond]

\* the first position from i on whose character is in cs, 0 when there is
\* none
RECURSIVE IndexIn(_, _, _)
IndexIn(s, i, cs) ==
    IF i > Len(s) THEN 0
    ELSE IF s[i] \in cs THEN i
    ELSE IndexIn(s, i + 1, cs)

\* the first position from i on whose character is not in cs, 0 when there
\* is none
RECURSIVE IndexNotIn(_, _, _)
IndexNotIn(s, i, cs) ==
    IF i > Len(s) THEN 0
    ELSE IF s[i] \notin cs THEN i
    ELSE IndexNotIn(s, i + 1, cs)

\* the ASCII digits [lo-hi] of a character class
Class(lo, hi) == {DigitChar(n) : n \in lo..hi}

\* strptime's pattern of %m: 1[0-2]|0[1-9]|[1-9]
MonthPattern(t) ==
    \/ Len(t) = 1 /\ t[1] \in Class(1, 9)
    \/ Len(t) = 2 /\ t[1] = "1" /\ t[2] \in Class(0, 2)
    \/ Len(t) = 2 /\ t[1] = "0" /\ t[2] \in Class(1, 9)

\* %d: 3[0-1]|[1-2]\d|0[1-9]|[1-9]| [1-9]
DayPattern(t) ==
    \/ Len(t) = 1 /\ t[1] \in Class(1, 9)
    \/ Len(t) = 2 /\ t[1] = "3" /\ t[2] \in Class(0, 1)
    \/ Len(t) = 2 /\ t[1] \in Class(1, 2) /\ t[2] \in Digits
    \/ Len(t) = 2 /\ t[1] = "0" /\ t[2] \in Class(1, 9)
    \/ Len(t) = 2 /\ t[1] = " " /\ t[2] \in Class(1, 9)

\* %H: 2[0-3]|[0-1]\d|\d
HourPattern(t) ==
    \/ Len(t) = 1 /\ t[1] \in Digits
    \/ Len(t) = 2 /\ t[1] = "2" /\ t[2] \in Class(0, 3)
    \/ Len(t) = 2 /\ t[1] \in Class(0, 1) /\ t[2] \in Digits

\* %M: [0-5]\d|\d
MinutePattern(t) ==
    \/ Len(t) = 1 /\ t[1] \in Digits
    \/ Len(t) = 2 /\ t[1] \in Class(0, 5) /\ t[2] \in Digits

\* %S: 6[0-1]|[0-5]\d|\d
SecondPattern(t) ==
    \/ Len(t) = 1 /\ t[1] \in Digits
    \/ Len(t) = 2 /\ t[1] = "6" /\ t[2] \in Class(0, 1)
    \/ Len(t) = 2 /\ t[1] \in Class(0, 5) /\ t[2] \in Digits

\* int() of a field of the pattern: its digits, a leading blank skipped
FieldValue(t) == DigitsValue(SelectSeq(t, LAMBDA c : c \in Digits))

\* the fields of s under the pattern of '%Y-%m-%d %H:%M:%S',
\*   (\d\d\d\d)-(%m)-(%d)\s+(%H):(%M):(%S)
\* matched from the start of s to its end; the blank of the format stands
\* for any run of whitespace and the fields need no zero padding
StrptimeFields(s) ==
    LET p2 == IndexIn(s, 6, {"-"})
        w  == IF p2 = 0 THEN 0 ELSE IndexIn(s, p2 + 2, Whitespace)
        h0 == IF w = 0 THEN 0 ELSE IndexNotIn(s, w, Whitespace)
        c1 == IF h0 = 0 THEN 0 ELSE IndexIn(s, h0, {":"})
        c2 == IF c1 = 0 THEN 0 ELSE IndexIn(s, c1 + 1, {":"})
    IN  IF \/ Len(s) < 5
           \/ c2 = 0
        THEN [ok |-> FALSE]
        ELSE [ok |-> TRUE,
              Y  |-> SubSeq(s, 1, 4),
              dash |-> s[5],
              m  |-> SubSeq(s, 6, p2 - 1),
              d  |-> SubSeq(s, p2 + 1, w - 1),
              H  |-> SubSeq(s, h0, c1 - 1),
              M  |-> SubSeq(s, c1 + 1, c2 - 1),
              S  |-> SubSeq(s, c2 + 1, Len(s))]

StrptimeShape(s) ==
    LET f == StrptimeFields(s)
    IN  /\ f.ok
        /\ AllDigits(f.Y)
        /\ f.dash = "-"
        /\ MonthPattern(f.m)
        /\ DayPattern(f.d)
        /\ HourPattern(f.H)
        /\ MinutePattern(f.M)
        /\ SecondPattern(f.S)

\* datetime.strptime(s, '%Y-%m-%d %H:%M:%S'): [ok |-> FALSE] is the
\* ValueError (no match, text left over, or a date or time that does not
\* exist: year 0, day 30 of February, second 60)
Strptime(s) ==
    IF ~StrptimeShape(s) THEN [ok |-> FALSE]
    ELSE LET f  == StrptimeFields(s)
             dt == [year        |-> FieldValue(f.Y),
                    month       |-> FieldValue(f.m),
                    day         |-> FieldValue(f.d),
                    hour        |-> FieldValue(f.H),
                    minute      |-> FieldValue(f.M),
                    second      |-> FieldValue(f.S),
                    microsecond |-> 0]
         IN  IF /\ dt.year >= 1
                /\ dt.day <= DaysInMonth(dt.year, dt.month)
                /\ dt.second <= 59
             THEN [ok |-> TRUE, dt |-> dt]
             ELSE [ok |-> FALSE]

\* now.strftime("%y%m%d_%H%M%S")
BatchNumberOf(dt) ==
    TwoDigits(dt.year % 100) \o TwoDigits(dt.month) \o TwoDigits(dt.day)
        \o <<"_">> \o
    TwoDigits(dt.hour) \o TwoDigits(dt.minute) \o TwoDigits(dt.second)

(***************************************************************************)
(* Natural numbers of any size, for the arithmetic of floats: a number is  *)
(* the sequence of its digits in base Limb, the lowest first, without a    *)
(* leading zero digit; zero is the empty sequence.                         *)
(***************************************************************************)
LimbBits == 15
Limb == 32768

\* 2^n, for 0 <= n <= LimbBits
Pow2(n) ==
    <<1, 2, 4, 8, 16, 32, 64, 128, 256, 512, 1024, 2048, 4096, 8192, 16384,
      32768>>[n + 1]

\* the digit of a at position i, zero past its ends
LimbAt(a, i) == IF 1 <= i /\ i <= Len(a) THEN a[i] ELSE 0

\* a without its leading zero digits
BigTrim(a) ==
    LET nz == {i \in 1..Len(a) : a[i] # 0}
    IN  SubSeq(a, 1, IF nz = {} THEN 0
                     ELSE CHOOSE i \in nz : \A j \in nz : j <= i)

\* the number n, for 0 <= n < 2^31
BigOf(n) ==
    BigTrim(<<n % Limb, (n \div Limb) % Limb, n \div (Limb * Limb)>>)

\* the integer a, for a < 2^31
BigInt(a) == LimbAt(a, 1) + LimbAt(a, 2) * Limb + LimbAt(a, 3) * Limb * Limb

\* what is carried into position i when the digit sums s, each below
\* 2 * Limb - 1, are brought below Limb: the nearest position below i whose
\* sum is not Limb - 1 carries or does not, and the positions between pass
\* it on
CarryInto(s, i) ==
    IF i = 1 THEN 0
    ELSE IF s[i - 1] # Limb - 1 THEN (IF s[i - 1] >= Limb THEN 1 ELSE 0)
    ELSE LET js == {j \in 1..(i - 1) : s[j] # Limb - 1}
         IN  IF js = {} THEN 0
             ELSE IF s[CHOOSE j \in js : \A l \in js : l <= j] >= Limb
             THEN 1 ELSE 0

Carried(s) ==
    BigTrim([i \in 1..Len(s) |-> (s[i] + CarryInto(s, i)) % Limb]
                \o <<CarryInto(s, Len(s) + 1)>>)

\* a + b
BigAdd(a, b) ==
    Carried([i \in 1..(IF Len(a) > Len(b) THEN Len(a) ELSE Len(b)) |->
                 LimbAt(a, i) + LimbAt(b, i)] \o <<>>)

\* a * m, for 0 < m < Limb
BigMulSmall(a, m) ==
    Carried([i \in 1..(Len(a) + 1) |->
                 ((LimbAt(a, i) * m) % Limb)
                     + ((LimbAt(a, i - 1) * m) \div Limb)]
                \o <<>>)

\* what is borrowed from position i when the digit differences d are
\* brought to 0 and above: the nearest position below i whose difference is
\* not 0 borrows or does not, and the positions between pass it on
BorrowFrom(d, i) ==
    IF i = 1 THEN 0
    ELSE IF d[i - 1] # 0 THEN (IF d[i - 1] < 0 THEN 1 ELSE 0)
    ELSE LET js == {j \in 1..(i - 1) : d[j] # 0}
         IN  IF js = {} THEN 0
             ELSE IF d[CHOOSE j \in js : \A l \in js : l <= j] < 0
             THEN 1 ELSE 0

\* a - b, for a >= b
BigSub(a, b) ==
    LET d == [i \in 1..Len(a) |-> a[i] - LimbAt(b, i)] \o <<>>
    IN  BigTrim([i \in 1..Len(a) |-> (d[i] - BorrowFrom(d, i)) % Limb])

\* a < b
BigLess(a, b) ==
    IF Len(a) # Len(b) THEN Len(a) < Len(b)
    ELSE LET ds == {i \in 1..Len(a) : a[i] # b[i]}
         IN  /\ ds # {}
             /\ LET top == CHOOSE i \in ds : \A j \in ds : j <= i
                IN  a[top] < b[top]

\* a * 2^s
BigShiftLeft(a, s) ==
    IF a = <<>> THEN <<>>
    ELSE [i \in 1..(s \div LimbBits) |-> 0]
             \o BigMulSmall(a, Pow2(s % LimbBits))

\* a \div 2^s
BigShiftRight(a, s) ==
    LET w == s \div LimbBits
        b == s % LimbBits
    IN  BigTrim([i \in 1..(Len(a) - w) |->
                     (LimbAt(a, i + w) \div Pow2(b))
                         + (LimbAt(a, i + w + 1) % Pow2(b))
                               * Pow2(LimbBits - b)])

RECURSIVE DivFrom(_, _, _, _)
DivFrom(a, m, i, r) ==
    IF i = 0 THEN [q |-> <<>>, r |-> r]
    ELSE LET x    == r * Limb + a[i]
             rest == DivFrom(a, m, i - 1, x % m)
         IN  [q |-> Append(rest.q, x \div m), r |-> rest.r]

\* the quotient q and the remainder r of a by m, for 0 < m < Limb
BigDivSmall(a, m) ==
    LET d == DivFrom(a, m, Len(a), 0)
    IN  [q |-> BigTrim(d.q), r |-> d.r]

\* the number of binary digits of n, for 0 <= n < Limb
BitLen(n) ==
    IF n = 0 THEN 0
    ELSE CHOOSE b \in 1..LimbBits : Pow2(b - 1) <= n /\ n < Pow2(b)

\* the number of binary digits of a
BigBitLen(a) ==
    IF a = <<>> THEN 0 ELSE LimbBits * (Len(a) - 1) + BitLen(a[Len(a)])

\* the number of zeros that end the binary digits of a, for a > 0
BigLowZeros(a) ==
    LET w == CHOOSE i \in 1..Len(a) :
                 a[i] # 0 /\ \A j \in 1..(i - 1) : a[j] = 0
    IN  LimbBits * (w - 1)
            + (CHOOSE b \in 0..(LimbBits - 1) :
                   a[w] % Pow2(b + 1) = Pow2(b))

\* a * 10^n
RECURSIVE BigTimesPow10(_, _)
BigTimesPow10(a, n) ==
    IF a = <<>> THEN <<>>
    ELSE IF n <= 4 THEN BigMulSmall(a, <<1, 10, 100, 1000, 10000>>[n + 1])
    ELSE BigTimesPow10(BigTimesPow10(a, n \div 2), n - n \div 2)

\* the number a run of digit characters denotes
RECURSIVE BigOfDigits(_)
BigOfDigits(s) ==
    IF Len(s) <= 9 THEN BigOf(DigitsValue(s))
    ELSE LET h == Len(s) \div 2
         IN  BigAdd(BigTimesPow10(BigOfDigits(SubSeq(s, 1, h)), Len(s) - h),
                    BigOfDigits(SubSeq(s, h + 1, Len(s))))

(***************************************************************************)
(* Floats (IEEE 754 binary64, as Python's float).  A double that is not    *)
(* negative is [inf, k, q]: infinity, or k * 2^q with k odd, or zero with  *)
(* k = 0 and q = 0.                                                        *)
(***************************************************************************)
\* the significand of a float has 53 binary digits, the lowest binary digit
\* of the smallest floats stands for 2^-1074, and 2^1024 is past the largest
MantissaBits == 53
MinBinaryExp == 0 - 1074
MaxBinaryLen == 1024

DoubleZero == [inf |-> FALSE, k |-> <<>>, q |-> 0]

DoubleInf == [inf |-> TRUE, k |-> <<>>, q |-> 0]

\* a is a power of two
BigIsPow2(a) == a # <<>> /\ BigLowZeros(a) + 1 = BigBitLen(a)

\* the number whose binary digits are k, the highest first
RECURSIVE BitsValue(_)
BitsValue(k) ==
    IF k = <<>> THEN 0 ELSE 2 * BitsValue(SubSeq(k, 1, Len(k) - 1)) + k[Len(k)]

BigOfBits(k) ==
    BigTrim([j \in 1..((Len(k) + LimbBits - 1) \div LimbBits) |->
                 BitsValue(SubSeq(k,
                     IF Len(k) - LimbBits * j + 1 < 1 THEN 1
                     ELSE Len(k) - LimbBits * j + 1,
                     Len(k) - LimbBits * (j - 1)))])

\* one more binary digit of a quotient by D: k are the digits so far, the
\* highest first, and r is the remainder that is left, doubled
QuotientDigit(st, D) ==
    IF BigLess(st.r, D)
    THEN [r |-> BigMulSmall(st.r, 2), k |-> Append(st.k, 0)]
    ELSE [r |-> BigMulSmall(BigSub(st.r, D), 2), k |-> Append(st.k, 1)]

\* the quotient brought to t binary digits
RECURSIVE Quotient(_, _, _)
Quotient(st, D, t) ==
    IF Len(st.k) >= t THEN st
    ELSE IF Len(st.k) + 1 = t THEN QuotientDigit(st, D)
    ELSE Quotient(Quotient(st, D, (Len(st.k) + t) \div 2), D, t)

\* the whole quotient k of A by B, which is below 2^54, and how twice the
\* remainder compares with B; a power of two divides by a shift
BigDivide(A, B) ==
    LET Compared(k, r2, D) ==
            [k |-> k, above |-> BigLess(D, r2), tie |-> r2 = D]
        Remainder(k, s) ==
            Compared(k, BigMulSmall(BigSub(A, BigShiftLeft(k, s)), 2), B)
        Shifted(s) == Remainder(BigShiftRight(A, s), s)
        Digits54(d, D) == Compared(BigOfBits(d.k), d.r, D)
        Long(D) ==
            Digits54(Quotient([r |-> A, k |-> <<>>], D, MantissaBits + 1), D)
    IN  IF BigIsPow2(B) THEN Shifted(BigLowZeros(B))
        ELSE Long(BigShiftLeft(B, MantissaBits))

\* k * 2^q with the factors two of k moved to the exponent
OddPart(k, q) ==
    LET Moved(z) == [inf |-> FALSE, k |-> BigShiftRight(k, z), q |-> q + z]
    IN  IF k = <<>> THEN DoubleZero ELSE Moved(BigLowZeros(k))

\* the double nearest to N / den, the even one of two that are equally near
\* (den > 0): an integer of up to 53 binary digits is a double as it is; any
\* other quotient is cut to 53 binary digits, fewer where the lowest digit
\* would fall below 2^-1074, and rounded on what is cut off
RoundDiv(N, den) ==
    LET Exponent(e0) ==
            IF e0 >= 0
            THEN (IF BigLess(N, BigShiftLeft(den, e0)) THEN e0 - 1 ELSE e0)
            ELSE (IF BigLess(BigShiftLeft(N, 0 - e0), den) THEN e0 - 1
                  ELSE e0)
        Lowest(e) ==
            IF e - (MantissaBits - 1) > MinBinaryExp
            THEN e - (MantissaBits - 1) ELSE MinBinaryExp
        Rounded(d) ==
            IF d.above \/ (d.tie /\ LimbAt(d.k, 1) % 2 = 1)
            THEN BigAdd(d.k, <<1>>) ELSE d.k
        Bounded(o) ==
            IF BigBitLen(o.k) + o.q > MaxBinaryLen THEN DoubleInf ELSE o
        Cut(q) ==
            Bounded(OddPart(Rounded(BigDivide(
                IF q >= 0 THEN N ELSE BigShiftLeft(N, 0 - q),
                IF q >= 0 THEN BigShiftLeft(den, q) ELSE den)), q))
    IN  IF N = <<>> THEN DoubleZero
        ELSE IF den = <<1>> /\ BigBitLen(N) <= MantissaBits
        THEN OddPart(N, 0)
        ELSE Cut(Lowest(Exponent(BigBitLen(N) - BigBitLen(den))))

(***************************************************************************)
(* Values of a payload.  A payload value is text, an integer or a float;   *)
(* all three have one record shape.  An integer is num * unit + rest       *)
(* (epoch milliseconds are days * 86400000 + the milliseconds of the day). *)
(* A finite float is (num * unit + rest) * 2^scale with unit 2^30 and the  *)
(* integer odd (100.5 is 201 * 2^-1: num 0, rest 201, scale -1); num and   *)
(* rest of a negative float are negative or zero; 0.0 is all zero, and     *)
(* -0.0 is 0.0 with the unit negative.  The floats inf, -inf and nan have  *)
(* their repr() as text.                                                   *)
(***************************************************************************)
StrV(s) ==
    [kind |-> "str", text |-> s, num |-> 0, unit |-> 1, rest |-> 0,
     scale |-> 0]

IntV(n, u, r) ==
    [kind |-> "int", text |-> <<>>, num |-> n, unit |-> u, rest |-> r,
     scale |-> 0]

FloatUnit == 1073741824

FloatV(hi, lo, q) ==
    [kind |-> "float", text |-> <<>>, num |-> hi, unit |-> FloatUnit,
     rest |-> lo, scale |-> q]

\* 0.0
PositiveZero == FloatV(0, 0, 0)

\* -0.0
NegativeZero == [PositiveZero EXCEPT !.unit = 0 - FloatUnit]

\* float('inf') and float('-inf')
Infinity(neg) ==
    [PositiveZero EXCEPT
        !.text = IF neg THEN <<"-", "i", "n", "f">> ELSE <<"i", "n", "f">>]

\* float('nan')
NaN == [PositiveZero EXCEPT !.text = <<"n", "a", "n">>]

\* the float of sign neg and of magnitude the double d
FloatOf(neg, d) ==
    IF d.inf THEN Infinity(neg)
    ELSE IF d.k = <<>> THEN (IF neg THEN NegativeZero ELSE PositiveZero)
    ELSE LET lo == BigInt(SubSeq(d.k, 1, IF Len(d.k) < 2 THEN Len(d.k) ELSE 2))
             hi == IF Len(d.k) < 3 THEN 0 ELSE BigInt(SubSeq(d.k, 3, Len(d.k)))
         IN  IF neg THEN FloatV(0 - hi, 0 - lo, d.q) ELSE FloatV(hi, lo, d.q)

\* the integer of sign neg and of magnitude m, as days and milliseconds of
\* the day
MillisOf(neg, m) ==
    LET Floor(days, rest) ==
            IF ~neg THEN IntV(days, 86400000, rest)
            ELSE IF rest = 0 THEN IntV(0 - days, 86400000, 0)
            ELSE IntV(0 - days - 1, 86400000, 86400000 - rest)
        Hours(ms, s, mi, h) ==
            Floor(BigInt(h.q), ((h.r * 60 + mi.r) * 60 + s.r) * 1000 + ms.r)
        Minutes(ms, s, mi) == Hours(ms, s, mi, BigDivSmall(mi.q, 24))
        Secs(ms, s) == Minutes(ms, s, BigDivSmall(s.q, 60))
        Thousandths(ms) == Secs(ms, BigDivSmall(ms.q, 60))
    IN  Thousandths(BigDivSmall(m, 1000))

\* int(ts * 1000) of a timestamp, lines 61 and 232.  The timestamp is the
\* float seconds + microsecond / 1e6, a quotient and a sum that are each
\* rounded to a float; the product by 1000 is rounded again, and int() cuts
\* what is left after the point, towards zero
Millis(ts) ==
    LET neg == ts.days < 0
        Seconds(days) ==
            IF neg THEN BigSub(days, BigOf(ts.secs))
            ELSE BigAdd(days, BigOf(ts.secs))
        Sum(secs, frac) ==
            RoundDiv(IF neg THEN BigSub(BigShiftLeft(secs, 0 - frac.q), frac.k)
                     ELSE BigAdd(BigShiftLeft(secs, 0 - frac.q), frac.k),
                     BigShiftLeft(<<1>>, 0 - frac.q))
        Product(t) ==
            RoundDiv(BigShiftLeft(BigMulSmall(t.k, 1000),
                                  IF t.q > 0 THEN t.q ELSE 0),
                     BigShiftLeft(<<1>>, IF t.q < 0 THEN 0 - t.q ELSE 0))
        Whole(p) ==
            IF p.q >= 0 THEN BigShiftLeft(p.k, p.q)
            ELSE BigShiftRight(p.k, 0 - p.q)
    IN  MillisOf(neg,
            Whole(Product(Sum(
                Seconds(BigMulSmall(BigMulSmall(
                    BigOf(IF neg THEN 0 - ts.days ELSE ts.days), 128), 675)),
                RoundDiv(BigOf(ts.micros), BigOf(1000000))))))

\* the digit zero of every script
ZeroDigits == {DigitRuns[r][1] : r \in DOMAIN DigitRuns}

\* 10^310 and more is past the largest float, 1.7976931348623157e308, and
\* what is below 10^-324 is nearer to zero than to the smallest float above
\* it, 5e-324
MaxDecimalExp == 309
MinDecimalExp == 0 - 324

UpperCase ==
    <<"A", "B", "C", "D", "E", "F", "G", "H", "I", "J", "K", "L", "M",
      "N", "O", "P", "Q", "R", "S", "T", "U", "V", "W", "X", "Y", "Z">>

LowerCase ==
    <<"a", "b", "c", "d", "e", "f", "g", "h", "i", "j", "k", "l", "m",
      "n", "o", "p", "q", "r", "s", "t", "u", "v", "w", "x", "y", "z">>

\* an ASCII letter in lower case, any other character as it is
LowerAscii(c) ==
    IF \E i \in 1..26 : UpperCase[i] = c
    THEN LowerCase[CHOOSE i \in 1..26 : UpperCase[i] = c]
    ELSE c

\* every '_' of s stands between two digits (the underscores float() allows)
UnderscoresGrouped(s) ==
    \A i \in 1..Len(s) :
        s[i] = "_" =>
            /\ i > 1 /\ s[i - 1] \in Digits
            /\ i < Len(s) /\ s[i + 1] \in Digits

\* float(s0): [ok |-> FALSE] is the ValueError.  The text is stripped, its
\* underscores between digits are dropped, and what is left is
\*   [+-] (inf | infinity | nan), in any case, or
\*   [+-] (digits [. [digits]] | . digits) [(e | E) [+-] digits]
\* with the digits of any script.  The value is the float nearest to the
\* significant digits sig (no leading and no trailing zero) times 10^exp.
ParseFloat(s0) ==
    LET t    == RStripOf(LStripOf(s0, FloatWhitespace), FloatWhitespace)
        s    == SelectSeq(t, LAMBDA c : c # "_")
        neg  == s # <<>> /\ s[1] = "-"
        body == IF s # <<>> /\ s[1] \in {"-", "+"} THEN Tail(s) ELSE s
        low  == [i \in 1..Len(body) |-> LowerAscii(body[i])]
        e    == IndexIn(body, 1, {"e", "E"})
        mant == IF e = 0 THEN body ELSE SubSeq(body, 1, e - 1)
        ex   == IF e = 0 THEN <<>> ELSE SubSeq(body, e + 1, Len(body))
        eneg == ex # <<>> /\ ex[1] = "-"
        exd  == IF ex # <<>> /\ ex[1] \in {"-", "+"} THEN Tail(ex) ELSE ex
        dot  == IndexIn(mant, 1, {"."})
        ip   == IF dot = 0 THEN mant ELSE SubSeq(mant, 1, dot - 1)
        fp   == IF dot = 0 THEN <<>> ELSE SubSeq(mant, dot + 1, Len(mant))
        zero == IF neg THEN NegativeZero ELSE PositiveZero
    IN  IF ~UnderscoresGrouped(t) THEN [ok |-> FALSE]
        ELSE IF low \in {<<"i", "n", "f">>,
                         <<"i", "n", "f", "i", "n", "i", "t", "y">>}
        THEN [ok |-> TRUE, value |-> Infinity(neg)]
        ELSE IF low = <<"n", "a", "n">> THEN [ok |-> TRUE, value |-> NaN]
        ELSE IF \/ ~AllDigits(ip) \/ ~AllDigits(fp)
                \/ Len(ip) + Len(fp) = 0
                \/ e # 0 /\ (exd = <<>> \/ ~AllDigits(exd))
        THEN [ok |-> FALSE]
        ELSE LET lead == LStripOf(ip \o fp, ZeroDigits)
                 sig  == RStripOf(lead, ZeroDigits)
                 xs   == LStripOf(exd, ZeroDigits)
             IN  [ok |-> TRUE,
                  value |->
                      IF sig = <<>> THEN zero
                      ELSE IF Len(xs) > 9
                      THEN (IF eneg THEN zero ELSE Infinity(neg))
                      ELSE LET ev  == IF eneg THEN 0 - DigitsValue(xs)
                                      ELSE DigitsValue(xs)
                               exp == ev - Len(fp) + (Len(lead) - Len(sig))
                               adj == Len(sig) - 1 + exp
                               m   == BigOfDigits(sig)
                           IN  IF adj > MaxDecimalExp THEN Infinity(neg)
                               ELSE IF adj < MinDecimalExp THEN zero
                               ELSE FloatOf(neg, RoundDiv(
                                        IF exp >= 0
                                        THEN BigTimesPow10(m, exp) ELSE m,
                                        IF exp >= 0 THEN <<1>>
                                        ELSE BigTimesPow10(<<1>>,
                                                           0 - exp)))]

(***************************************************************************)
(* convert_fields (importer.py 27-76).                                     *)
(***************************************************************************)
\* a mutant of fields_map: the source tag is mapped too
fields_map_with_source ==
    [uniqId      |-> "WeiYiZiDuan",
     date        |-> "RiQi",
     money       |-> "JinE",
     name        |-> "BeiZhu",
     type        |-> "ShouZhi",
     batchNumber |-> "DaoRuPiCiHao",
     source      |-> "LaiYuan"]

\* the remote field names: '唯一字段', '日期', '金额', '备注', '收支', '导入批次号'
fields_map ==
    [uniqId      |-> "WeiYiZiDuan",
     date        |-> "RiQi",
     money       |-> "JinE",
     name        |-> "BeiZhu",
     type        |-> "ShouZhi",
     batchNumber |-> "DaoRuPiCiHao"]

\* lines 49-51: the keys of the table that the record has, renamed
RenamedKeys(record) ==
    {fields_map[k] : k \in (DOMAIN fields_map) \cap (DOMAIN record)}

LocalKey(remote) == CHOOSE k \in DOMAIN fields_map : fields_map[k] = remote

\* lines 55-64: the date becomes epoch milliseconds when it parses and its
\* timestamp can be taken in the process's zone; strptime's ValueError and
\* timestamp()'s are caught alike, and the text stays
CoerceDate(text, off) ==
    LET p == Strptime(text)
    IN  IF ~p.ok THEN StrV(text)
        ELSE IF TimestampRaises(p.dt, off) THEN StrV(text)
        ELSE Millis(Timestamp(p.dt, off))

\* a mutant of CoerceMoney: an amount that does not parse becomes 0.0
CoerceMoneyOrZero(text) ==
    LET p == ParseFloat(text)
    IN  IF p.ok THEN p.value ELSE PositiveZero

\* lines 66-72: the amount becomes a float when it parses
CoerceMoney(text) ==
    LET p == ParseFloat(text)
    IN  IF p.ok THEN p.value ELSE StrV(text)

\* off is the UTC offset of the zone the process runs in
convert_fields(record, off) ==
    [fields |->
        [r \in RenamedKeys(record) |->
            IF r = fields_map.date THEN CoerceDate(record[LocalKey(r)], off)
            ELSE IF r = fields_map.money THEN CoerceMoney(record[LocalKey(r)])
            ELSE StrV(record[LocalKey(r)])]]

(***************************************************************************)
(* The body of the line loop of import_command (importer.py 166-197).      *)
(***************************************************************************)
\* '收入' and '支出'
Income == <<"S", "R">>
Expense == <<"Z", "C">>

\* line 187
RecognizedKinds == {Income, Expense}

\* line 176
MinColumns == 11

\* line 194
Source == <<"a", "l", "i", "p", "a", "y">>

\* a mutant of DataItem: the row is stamped with its own id in place of the
\* batch number
DataItemStampsId(columns, batch_number) ==
    [uniqId      |-> Strip(columns[1]),
     date        |-> Strip(columns[4]),
     money       |-> Strip(columns[10]),
     name        |-> Strip(columns[9]),
     type        |-> Strip(columns[11]),
     source      |-> <<"a", "l", "i", "p", "a", "y">>,
     batchNumber |-> Strip(columns[1])]

\* a mutant of DataItem: the amount and the memo are taken from each other's
\* column
DataItemSwapped(columns, batch_number) ==
    [uniqId      |-> Strip(columns[1]),
     date        |-> Strip(columns[4]),
     money       |-> Strip(columns[9]),
     name        |-> Strip(columns[10]),
     type        |-> Strip(columns[11]),
     source      |-> <<"a", "l", "i", "p", "a", "y">>,
     batchNumber |-> batch_number]

\* lines 188-196
DataItem(columns, batch_number) ==
    [uniqId      |-> Strip(columns[1]),
     date        |-> Strip(columns[4]),
     money       |-> Strip(columns[10]),
     name        |-> Strip(columns[9]),
     type        |-> Strip(columns[11]),
     source      |-> Source,
     batchNumber |-> batch_number]

\* a mutant of KeepKind: only an empty kind is dropped
KeepKindNonEmpty(type_) == type_ # <<>>

\* line 187: the kind filter
KeepKind(type_) == type_ \in RecognizedKinds

\* lines 167-197: the row list after one line
ExtractLine(list, ln, batch_number) ==
    LET line_trimmed == Strip(ln)
        columns      == Split(line_trimmed)
    IN  IF line_trimmed = <<>> THEN list
        ELSE IF ~MatchDigits(line_trimmed) THEN list
        ELSE IF Len(columns) < MinColumns THEN list
        ELSE IF ~KeepKind(Strip(columns[11])) THEN list
        ELSE Append(list, DataItem(columns, batch_number))

(***************************************************************************)
(* Inputs of the model: ledger lines, run times, settings.                 *)
(***************************************************************************)
RECURSIVE Join(_)
Join(cols) ==
    IF Len(cols) = 0 THEN <<>>
    ELSE IF Len(cols) = 1 THEN cols[1]
    ELSE cols[1] \o <<",">> \o Join(Tail(cols))

Id8 == <<"1", "2", "3", "4", "5", "6", "7", "8">>
Id9 == <<"2", "0", "2", "4", "0", "1", "0", "2", "9">>
Id7 == <<"1", "2", "3", "4", "5", "6", "7">>
\* eight fullwidth digits, '１２３４５６７８'
IdFullwidth ==
    <<"U+FF11", "U+FF12", "U+FF13", "U+FF14", "U+FF15", "U+FF16", "U+FF17",
      "U+FF18">>
GoodDate ==
    <<"2", "0", "2", "4", "-", "0", "1", "-", "0", "2", " ",
      "1", "0", ":", "0", "0", ":", "0", "0">>
BadDate == <<"2", "0", "2", "4", "/", "1", "/", "2">>
GoodMoney == <<"1", "0", "0", ".", "5", "0">>
BadMoney == <<"n", "/", "a">>
Memo == <<"m", "e", "m", "o", "X">>
\* a kind label that is neither income nor expense ('其他')
OtherKind == <<"Q", "T">>

\* an 11-column ledger line with the given id, date, amount and kind
Ledger(id, date, money, kind) ==
    <<id, <<"a">>, <<"b">>, date, <<"e">>, <<"f">>, <<"g">>, <<"h">>,
      Memo, money, kind>>

\* the lines of a ledger: blank lines, a title, rows of both kinds, a row of
\* a file with CRLF line ends whose columns are padded with blanks, a tab and
\* an ideographic space, a row whose id is in fullwidth digits, rows of other
\* kinds, ids that are no eight digits, and rows of ten and thirteen columns
Lines ==
    { <<>>,
      <<" ", "\r">>,
      <<"j", "i", "a", "o", "y", "i", "h", "a", "o", ",", "x">>,
      Join(Ledger(Id8, GoodDate, GoodMoney, Expense)),
      Join(Ledger(IdFullwidth, BadDate, BadMoney, Income)),
      <<"\t">> \o Join(Ledger(Id8 \o <<" ">>, <<"U+3000">> \o GoodDate,
                              GoodMoney \o <<"\t">>,
                              <<" ">> \o Expense \o <<" ">>)) \o <<"\r">>,
      Join(Ledger(Id9, GoodDate, GoodMoney, OtherKind)),
      Join(Ledger(Id8, GoodDate, GoodMoney, <<>>)),
      Join(Ledger(Id8, GoodDate, GoodMoney, Expense \o <<"x">>)),
      Join(Ledger(Id7, GoodDate, GoodMoney, Expense)),
      Join(Ledger(<<"x">> \o Id8, GoodDate, GoodMoney, Expense)),
      Join(SubSeq(Ledger(Id8, GoodDate, GoodMoney, Expense), 1, 10)),
      Join(SubSeq(Ledger(Id8, GoodDate, GoodMoney, Expense), 1, 10)
               \o <<Expense \o <<"x">>, Expense>>),
      Join(Ledger(IdFullwidth, BadDate, BadMoney, Income)
               \o <<Expense, <<>> >>) }

\* datetime.datetime.now() of a run
Nows ==
    { [year |-> 2024, month |-> 1, day |-> 1,
       hour |-> 0, minute |-> 0, second |-> 0, microsecond |-> 0],
      [year |-> 2038, month |-> 5, day |-> 25,
       hour |-> 20, minute |-> 55, second |-> 17, microsecond |-> 213000] }

\* settings of app.core.config as the commands read them
Config(id, secret, token, batch_table) ==
    [FEISHU_APP_ID                |-> id,
     FEISHU_APP_SECRET            |-> secret,
     FEISHU_APP_TOKEN             |-> token,
     FEISHU_TABLE_ID_BATCH_NUMBER |-> batch_table,
     FEISHU_TABLE_ID_BILLING      |-> "tblBilling"]

SettingsSet ==
    { Config("app", "secret", "base", "tblBatch"),
      Config("app", "secret", "base", None),
      Config(None, "secret", "base", "tblBatch"),
      Config("app", "", "base", "tblBatch"),
      Config("app", "secret", None, "tblBatch"),
      Config(None, None, None, None) }

\* a mutant of ConfigComplete: the app token is not looked at
ConfigCompleteWithoutToken(st) ==
    /\ Truthy(st.FEISHU_APP_ID)
    /\ Truthy(st.FEISHU_APP_SECRET)

\* all([app id, app secret, app token])  (importer.py 218 and 285)
ConfigComplete(st) ==
    /\ Truthy(st.FEISHU_APP_ID)
    /\ Truthy(st.FEISHU_APP_SECRET)
    /\ Truthy(st.FEISHU_APP_TOKEN)

(***************************************************************************)
(* The remote store: what it may answer.  transport = FALSE is a request   *)
(* that raised in the transport (no response); its other fields are unused.*)
(* json = FALSE is an answer whose body is no JSON (an error page of a      *)
(* gateway, no text at all): response.json() raises on it, and its body    *)
(* fields are unused.                                                      *)
(***************************************************************************)
Statuses == {200, 201, 500, 600}
Codes == {0, 99}
Msgs == {"ok", "denied"}

AuthResponses ==
    [transport : {TRUE}, json : {TRUE}, status : Statuses, code : Codes,
     msg : Msgs, tenant_access_token : {"tA", "tB", None}]
    \cup
    [transport : {TRUE}, json : {FALSE}, status : Statuses, code : {0},
     msg : {"ok"}, tenant_access_token : {None}]
    \cup
    [transport : {FALSE}, json : {FALSE}, status : {200}, code : {0},
     msg : {"ok"}, tenant_access_token : {None}]

\* describe-spreadsheet: data.spreadsheet.sheets, as the list of sheet ids
SheetLists == {<<>>, <<"sh2", "sh1">>}

DescribeResponses ==
    [transport : {TRUE}, json : {TRUE}, status : Statuses, code : Codes,
     msg : Msgs, sheets : SheetLists]
    \cup
    [transport : {TRUE}, json : {FALSE}, status : Statuses, code : {0},
     msg : {"ok"}, sheets : {<<>>}]
    \cup
    [transport : {FALSE}, json : {FALSE}, status : {200}, code : {0},
     msg : {"ok"}, sheets : {<<>>}]

\* records-search: data.items and data.page_token of the pages the store
\* serves; two name a next page, one has an empty token, one has none
Pages ==
    { [items |-> <<"r2", "r1">>, page_token |-> "p1"],
      [items |-> <<"r1">>,       page_token |-> "p2"],
      [items |-> <<>>,           page_token |-> ""],
      [items |-> <<"r2", "r1">>, page_token |-> None] }

SearchResponses ==
    { [transport |-> TRUE, json |-> TRUE, status |-> st, code |-> c,
       msg |-> m, items |-> p.items, page_token |-> p.page_token] :
          st \in Statuses, c \in Codes, m \in Msgs, p \in Pages }
    \cup
    { [transport |-> TRUE, json |-> FALSE, status |-> st, code |-> 0,
       msg |-> "ok", items |-> <<>>, page_token |-> None] :
          st \in Statuses }
    \cup
    { [transport |-> FALSE, json |-> FALSE, status |-> 200, code |-> 0,
       msg |-> "ok", items |-> <<>>, page_token |-> None] }

\* record create and batch create: data
WriteResponses ==
    [transport : {TRUE}, json : {TRUE}, status : Statuses, code : Codes,
     msg : Msgs, data : {"created"}]
    \cup
    [transport : {TRUE}, json : {FALSE}, status : Statuses, code : {0},
     msg : {"ok"}, data : {""}]
    \cup
    [transport : {FALSE}, json : {FALSE}, status : {200}, code : {0},
     msg : {"ok"}, data : {""}]

\* Response.raise_for_status(): 4xx and 5xx raise, and no other status
RaisesForStatus(status) == 400 <= status /\ status < 600

\* the store keeps a written row exactly when it reports full success
Stored(resp) ==
    resp.transport /\ resp.json /\ resp.status = 200 /\ resp.code = 0

\* the table ids a request URL of this model can name (a table_id of None is
\* formatted into the URL as the text None)
Tables == {"tblBatch", "tblBilling", None}

(***************************************************************************)
(* Results and errors of a client method.                                  *)
(***************************************************************************)
NoBody == [code |-> 0, msg |-> "", data |-> ""]

BodyOf(resp) == [code |-> resp.code, msg |-> resp.msg, data |-> resp.data]

\* an exception: its type, and the remote message, transport status and
\* response body its text carries (defaults when the text carries none)
Error(type, msg, status, body) ==
    [type |-> type, msg |-> msg, status |-> status, body |-> body]

NoError == Error("none", "", 0, NoBody)

ConnectionError == Error("ConnectionError", "", 0, NoBody)

\* requests.HTTPError of raise_for_status
HTTPError(status) == Error("HTTPError", "", status, NoBody)

\* Exception(f"获取访问令牌失败: {msg}")  (feishu_doc.py 52)
TokenFailed(msg) == Error("TokenFailed", msg, 0, NoBody)

\* Exception(f"获取多维表格信息失败: {msg}")  (feishu_doc.py 86, 152)
SheetInfoFailed(msg) == Error("SheetInfoFailed", msg, 0, NoBody)

\* Exception(f"获取多维表格记录失败: {msg}")  (feishu_doc.py 114)
RecordsFailed(msg) == Error("RecordsFailed", msg, 0, NoBody)

\* Exception(f"插入记录失败: {msg}, 状态码: {status}, 完整响应: {body}")
\* (feishu_doc.py 176, 210)
InsertFailed(msg, status, body) == Error("InsertFailed", msg, status, body)

\* the JSONDecodeError of response.json() on a body that is no JSON
\* (feishu_doc.py 49, 83, 111, 149, 173, 207)
JSONDecodeError == Error("JSONDecodeError", "", 0, NoBody)

\* list index out of range (feishu_doc.py 88)
IndexError == Error("IndexError", "", 0, NoBody)

\* what a method handed to its caller: nothing yet, a return value (a token,
\* a list of records or sheets, or the data of a write), or an exception
NoResult ==
    [kind |-> "none", token |-> None, value |-> <<>>, data |-> "",
     error |-> NoError]

ReturnToken(t) == [NoResult EXCEPT !.kind = "return", !.token = t]

ReturnList(l) == [NoResult EXCEPT !.kind = "return", !.value = l]

ReturnData(d) == [NoResult EXCEPT !.kind = "return", !.data = d]

Raised(err) == [NoResult EXCEPT !.kind = "raise", !.error = err]

(***************************************************************************)
(* Calls and requests.                                                     *)
(***************************************************************************)
\* a call of a client method with its arguments; body is the records of a
\* batch insert, or the one {fields: ...} of a single insert
Call(name, app_token, tid, filter_params, body) ==
    [name |-> name, app_token |-> app_token, table_id |-> tid,
     filter_params |-> filter_params, page_size |-> 100, body |-> body]

NoCall == Call("none", None, None, None, <<>>)

\* lines 96-97: search_params gets the key "filter" only when filter_params
\* is truthy; None, an empty filter ({}, here '') and no argument leave the
\* request without one, which a request shows as a filter of None
SearchFilter(filter_params) ==
    IF Truthy(filter_params) THEN filter_params ELSE None

\* a mutant of Request: every search request asks for the first page
RequestFirstPage(ep, token, app_token, tid, ptoken, size, filter, body) ==
    [ep |-> ep, bearer |-> token, app_token |-> app_token, table |-> tid,
     page_token |-> (IF ep = "search" THEN "" ELSE ptoken),
     page_size |-> size, filter |-> filter, body |-> body]

\* one HTTP request as it leaves the client
Request(ep, token, app_token, tid, ptoken, size, filter, body) ==
    [ep |-> ep, bearer |-> token, app_token |-> app_token, table |-> tid,
     page_token |-> ptoken, page_size |-> size, filter |-> filter,
     body |-> body]

\* POST /auth/v3/tenant_access_token/internal/  (feishu_doc.py 38-47)
AuthRequest == Request("auth", None, None, None, None, 0, None, <<>>)

\* the marker row of a run: '导入批次编号' and '时间' (importer.py 230-233)
MarkerFields(bn, t, off) ==
    [DaoRuPiCiBianHao |-> StrV(bn), ShiJian |-> Millis(Timestamp(t, off))]

\* importer.py 239-243
MarkerCall(st, bn, t, off) ==
    Call("add_spreadsheet_record", st.FEISHU_APP_TOKEN,
         st.FEISHU_TABLE_ID_BATCH_NUMBER, None,
         <<[fields |-> MarkerFields(bn, t, off)]>>)

\* importer.py 249-253
BillingCall(st, converted) ==
    Call("batch_add_record", st.FEISHU_APP_TOKEN,
         st.FEISHU_TABLE_ID_BILLING, None, converted)

\* importer.py 296-299
ListCall(st) ==
    Call("get_spreadsheet_records", st.FEISHU_APP_TOKEN,
         st.FEISHU_TABLE_ID_BATCH_NUMBER, None, <<>>)

\* importer.py 204
ConvertAll(list, off) ==
    [i \in 1..Len(list) |-> convert_fields(list[i], off)]

\* a row as a direct caller might pass it
SampleRow ==
    DataItem(Ledger(Id8, GoodDate, GoodMoney, Expense),
             BatchNumberOf(CHOOSE t \in Nows : t.year = 2024))

\* the payload of that row, converted in UTC
SamplePayload == convert_fields(SampleRow, 0)

\* the calls a direct caller of the client makes; one search has an empty
\* filter and no table, one a filter and a table (list_command's search has
\* no filter argument)
DirectCalls ==
    { Call("get_access_token", None, None, None, <<>>),
      Call("get_spreadsheet_sheets", "base", None, None, <<>>),
      Call("add_spreadsheet_record", "base", "tblBatch", None,
           <<[fields |-> SamplePayload.fields]>>) }
    \cup
    { Call("get_spreadsheet_records", "base", None, "", <<>>),
      Call("get_spreadsheet_records", "base", "tblBatch", "flt", <<>>) }
    \cup
    { Call("batch_add_record", "base", "tblBilling", None, b) :
          b \in {<<>>, <<SamplePayload>>} }

(***************************************************************************)
(* State.                                                                  *)
(***************************************************************************)
VARIABLES
    cmd,            \* what runs: "import" or "list" (args.command,
                    \* importer.py 338-341), "client" (a direct caller of
                    \* one FeishuDocClient), "convert" (convert_fields alone)
    pc,             \* where control is
    settings,       \* app.core.config.settings
    tz,             \* the time zone of the process, as its UTC offset in
                    \* seconds
    dry_run,        \* import_command's argument
    now,            \* importer.py 89
    batch_number,   \* importer.py 90
    temp_dir,       \* "none", "created", "removed", or "kept" (rmtree
                    \* failed and the failure was ignored)
    files_left,     \* CSV files of csv_files not yet finished
    lines_read,     \* lines the run has processed
    line,           \* the loop variable of importer.py 166 while the files
                    \* are read; <<>> before and after
    data_item_list,
    converted_data_list,
    report,         \* the last message the command printed about its fate
    client,         \* whether the FeishuDocClient exists
    access_token,   \* FeishuDocClient.access_token
    exchanges,      \* credential exchanges the client accepted so far
    n_ops,          \* calls the direct caller has made
    op,             \* the client method running, with its arguments
    bearer,         \* the method's local access_token
    table_id,       \* get_spreadsheet_records' table_id
    page_token,     \* search_params["page_token"]
    all_records,
    pages,          \* the successful search responses of this search
    result,         \* what the last client method handed to its caller
    net,            \* the requests issued since the command (or the direct
                    \* call) began, in order
    store           \* the rows each table of the remote store holds

vars ==
    <<cmd, pc, settings, tz, dry_run, now, batch_number, temp_dir, files_left,
      lines_read, line, data_item_list, converted_data_list, report, client,
      access_token, exchanges, n_ops, op, bearer, table_id, page_token,
      all_records, pages, result, net, store>>

importVars ==
    <<dry_run, now, batch_number, temp_dir, files_left, lines_read, line,
      data_item_list, converted_data_list>>

localVars == <<bearer, table_id, page_token, all_records, pages>>

\* the process before its first step.  main() runs the command named by
\* args.command (importer.py 338-341) with the settings and the zone of its
\* process; a direct caller of the client has not loaded the importer's
\* settings, and the client reads neither them nor the zone
Init ==
    /\ \/ /\ cmd \in {"import", "list"}
          /\ settings \in SettingsSet
          /\ tz \in UtcOffsets
       \/ /\ cmd = "client"
          /\ settings = Config(None, None, None, None)
          /\ tz = 0
    /\ pc = "start"
    /\ dry_run = FALSE
    /\ now = CHOOSE t \in Nows : TRUE
    /\ batch_number = <<>>
    /\ temp_dir = "none"
    /\ files_left = 0
    /\ lines_read = 0
    /\ line = <<>>
    /\ data_item_list = <<>>
    /\ converted_data_list = <<>>
    /\ report = "none"
    /\ client = FALSE
    /\ access_token = None
    /\ exchanges = 0
    /\ n_ops = 0
    /\ op = NoCall
    /\ bearer = None
    /\ table_id = None
    /\ page_token = ""
    /\ all_records = <<>>
    /\ pages = <<>>
    /\ result = NoResult
    /\ net = <<>>
    /\ store = [t \in Tables |-> <<>>]

(***************************************************************************)
(* Control between a client method and its caller.                         *)
(***************************************************************************)
\* a mutant of FirstStage: a batch insert of no records returns without a
\* request
FirstStageSkipsEmptyBatch(o) ==
    CASE o.name = "get_spreadsheet_records" ->
             IF Truthy(o.table_id) THEN "search" ELSE "describe"
      [] o.name = "get_spreadsheet_sheets" -> "sheets"
      [] o.name = "add_spreadsheet_record" -> "insert"
      [] o.name = "batch_add_record" /\ o.body # <<>> -> "batch"
      [] OTHER -> "return"

\* where a method goes once it holds a token
FirstStage(o) ==
    CASE o.name = "get_spreadsheet_records" ->
             IF Truthy(o.table_id) THEN "search" ELSE "describe"
      [] o.name = "get_spreadsheet_sheets" -> "sheets"
      [] o.name = "add_spreadsheet_record" -> "insert"
      [] o.name = "batch_add_record" -> "batch"
      [] OTHER -> "return"

\* where control goes when the running method ends (returns, or raises into
\* the command's except clause)
AfterCall ==
    CASE cmd = "client" -> "idle"
      [] cmd = "import" -> "finally"
      [] OTHER -> "done"

\* a method is entered with token tok cached on the client: its first line
\* is get_access_token(), which asks the remote only without a cached token
\* (feishu_doc.py 37, 71, 140, 157, 191; 91-99 for a search)
Enter(o, tok) ==
    /\ op' = o
    /\ bearer' = (IF Truthy(tok) THEN tok ELSE None)
    /\ table_id' = o.table_id
    /\ page_token' = ""
    /\ all_records' = <<>>
    /\ pages' = <<>>
    /\ pc' = (IF Truthy(tok) THEN FirstStage(o) ELSE "auth")

\* a mutant of Raise: the failed step is tried again
RaiseAndRetry(err) ==
    /\ result' = Raised(err)
    /\ pc' = pc
    /\ report' = report

\* the running method raises err
Raise(err) ==
    /\ result' = Raised(err)
    /\ pc' = AfterCall
    /\ report' = (IF cmd = "client" THEN report ELSE "exception")

\* the running method returns res and the caller has nothing more to call
Return(res) ==
    /\ result' = res
    /\ pc' = AfterCall
    /\ report' = (IF cmd = "list" THEN "listed" ELSE report)

(***************************************************************************)
(* import_command (importer.py 77-265).                                    *)
(***************************************************************************)
\* lines 86-141: the batch number, the temporary directory, the archive and
\* the CSV files found in it.  The file is looked for first (line 101); then
\* tempfile.mkdtemp() (line 106) makes the directory or raises, and the
\* extraction or the copy (lines 110-129) can raise after it; either
\* exception is reported at line 255, the first with no directory to remove
ImportOpen(dry, t, exists, made, extracted, n_csv) ==
    /\ cmd = "import"
    /\ pc = "start"
    /\ dry_run' = dry
    /\ now' = t
    /\ batch_number' = BatchNumberOf(t)
    /\ data_item_list' = <<>>
    /\ temp_dir' = (IF exists /\ made THEN "created" ELSE "none")
    /\ files_left' = (IF exists /\ made /\ extracted THEN n_csv ELSE 0)
    /\ report' = (CASE ~exists -> "file_missing"
                    [] ~made -> "exception"
                    [] ~extracted -> "exception"
                    [] n_csv = 0 -> "no_csv"
                    [] OTHER -> "none")
    /\ pc' = (IF exists /\ made /\ extracted /\ n_csv > 0 THEN "read"
              ELSE "finally")
    /\ UNCHANGED <<cmd, settings, tz, lines_read, line, converted_data_list,
                   client, access_token, exchanges, n_ops, op, localVars,
                   result, net, store>>

\* lines 148-163: the file is decoded as gbk, else as utf-8 ignoring errors,
\* else the run reports the read failure and returns
ReadCsvFile(decoded) ==
    /\ pc = "read"
    /\ pc' = (IF decoded = "fail" THEN "finally" ELSE "lines")
    /\ report' = (IF decoded = "fail" THEN "read_error" ELSE report)
    /\ UNCHANGED <<cmd, settings, tz, importVars, client, access_token,
                   exchanges, n_ops, op, localVars, result, net, store>>

\* lines 166-197: one line of the file
ProcessLine(ln) ==
    /\ pc = "lines"
    /\ lines_read < MaxLines
    /\ line' = ln
    /\ lines_read' = lines_read + 1
    /\ data_item_list' = ExtractLine(data_item_list, ln, batch_number)
    /\ UNCHANGED <<cmd, pc, settings, tz, dry_run, now, batch_number, temp_dir,
                   files_left, converted_data_list, report, client,
                   access_token, exchanges, n_ops, op, localVars, result,
                   net, store>>

\* line 144: the lines of the file are done and another file follows
NextFile ==
    /\ pc = "lines"
    /\ files_left > 1
    /\ files_left' = files_left - 1
    /\ pc' = "read"
    /\ UNCHANGED <<cmd, settings, tz, dry_run, now, batch_number, temp_dir,
                   lines_read, line, data_item_list, converted_data_list,
                   report, client, access_token, exchanges, n_ops, op,
                   localVars, result, net, store>>

\* a mutant of AfterExtraction: dry_run is not looked at
AfterExtractionIgnoresDryRun(dry, st) ==
    IF ~ConfigComplete(st) THEN "config_error" ELSE "upload"

\* lines 210-220: what the run does with the converted rows
AfterExtraction(dry, st) ==
    IF dry THEN "dry_run"
    ELSE IF ~ConfigComplete(st) THEN "config_error"
    ELSE "upload"

\* lines 199-243: the last file is done; the rows are converted, then a dry
\* run returns, an incomplete configuration returns, and otherwise the client
\* is created and the marker row's insert is called; a clock reading whose
\* timestamp() raises (line 232) ends the run at line 255 before the call.
\* The loops of lines 144-197 are over: nothing after them reads their
\* variable, and the state keeps no line for a loop that does not run
FinishExtraction ==
    /\ pc = "lines"
    /\ files_left = 1
    /\ files_left' = 0
    /\ line' = <<>>
    /\ converted_data_list' = ConvertAll(data_item_list, tz)
    /\ LET todo == AfterExtraction(dry_run, settings)
       IN  IF todo = "upload" /\ TimestampRaises(now, tz)
           THEN /\ report' = "exception"
                /\ client' = TRUE
                /\ pc' = "finally"
                /\ UNCHANGED <<op, localVars>>
           ELSE IF todo = "upload"
           THEN /\ report' = report
                /\ client' = TRUE
                /\ Enter(MarkerCall(settings, batch_number, now, tz), None)
           ELSE /\ report' = todo
                /\ pc' = "finally"
                /\ UNCHANGED <<client, op, localVars>>
    /\ UNCHANGED <<cmd, settings, tz, dry_run, now, batch_number, temp_dir,
                   lines_read, data_item_list, access_token, exchanges,
                   n_ops, result, net, store>>

\* a mutant of Finally: the temporary directory is not touched
FinallyWithoutCleanup(removable) ==
    /\ pc = "finally"
    /\ pc' = "done"
    /\ UNCHANGED <<cmd, settings, tz, importVars, report, client, access_token,
                   exchanges, n_ops, op, localVars, result, net, store>>

\* lines 260-265: the finally clause calls rmtree on the temporary directory
\* if there is one; ignore_errors=True swallows a removal that fails, and the
\* directory is then still there
Finally(removable) ==
    /\ pc = "finally"
    /\ temp_dir' = (IF temp_dir # "created" THEN temp_dir
                    ELSE IF removable THEN "removed" ELSE "kept")
    /\ pc' = "done"
    /\ UNCHANGED <<cmd, settings, tz, dry_run, now, batch_number, files_left,
                   lines_read, line, data_item_list, converted_data_list,
                   report, client, access_token, exchanges, n_ops, op,
                   localVars, result, net, store>>

(***************************************************************************)
(* list_command (importer.py 268-307).                                     *)
(***************************************************************************)
ListStart ==
    /\ cmd = "list"
    /\ pc = "start"
    /\ IF ~ConfigComplete(settings)
       THEN /\ report' = "config_error"
            /\ pc' = "done"
            /\ UNCHANGED <<client, op, localVars>>
       ELSE /\ report' = report
            /\ client' = TRUE
            /\ Enter(ListCall(settings), None)
    /\ UNCHANGED <<cmd, settings, tz, importVars, access_token, exchanges,
                   n_ops, result, net, store>>

(***************************************************************************)
(* A direct caller of FeishuDocClient.                                     *)
(***************************************************************************)
\* FeishuDocClient(app_id, app_secret)  (feishu_doc.py 17-28): the arguments
\* are stored and nothing is tested
ClientNew ==
    /\ cmd = "client"
    /\ pc = "start"
    /\ client' = TRUE
    /\ access_token' = None
    /\ pc' = "idle"
    /\ UNCHANGED <<cmd, settings, tz, importVars, report, exchanges, n_ops, op,
                   localVars, result, net, store>>

\* the caller calls a method; get_access_token with a cached token returns
\* it at once (feishu_doc.py 37, 56)
CallMethod(o) ==
    /\ pc = "idle"
    /\ n_ops < MaxOps
    /\ n_ops' = n_ops + 1
    /\ net' = <<>>
    /\ IF o.name = "get_access_token" /\ Truthy(access_token)
       THEN /\ result' = ReturnToken(access_token)
            /\ op' = o
            /\ pc' = "idle"
            /\ UNCHANGED localVars
       ELSE /\ result' = NoResult
            /\ Enter(o, access_token)
    /\ UNCHANGED <<cmd, settings, tz, importVars, report, client, access_token,
                   exchanges, store>>

(***************************************************************************)
(* FeishuDocClient (feishu_doc.py).  Each action is one request, its       *)
(* response, and the method's code up to its next request or its end; the  *)
(* request is the conjunct on net.                                         *)
(***************************************************************************)
\* a mutant of AuthCheck: the body code is not looked at
AuthCheckIgnoresCode(resp) ==
    IF ~resp.transport THEN ConnectionError
    ELSE IF RaisesForStatus(resp.status) THEN HTTPError(resp.status)
    ELSE IF ~resp.json THEN JSONDecodeError
    ELSE NoError

\* get_access_token, lines 47-52: the exception the response raises, or
\* NoError.  raise_for_status() comes first (line 48), then response.json()
\* (line 49), then the test of the body code (line 51)
AuthCheck(resp) ==
    IF ~resp.transport THEN ConnectionError
    ELSE IF RaisesForStatus(resp.status) THEN HTTPError(resp.status)
    ELSE IF ~resp.json THEN JSONDecodeError
    ELSE IF resp.code # 0 THEN TokenFailed(resp.msg)
    ELSE NoError

\* lines 47-56, the cache being empty
AuthExchange(resp) ==
    /\ pc = "auth"
    /\ LET err == AuthCheck(resp)
       IN  IF err # NoError
           THEN /\ Raise(err)
                /\ UNCHANGED <<access_token, exchanges, bearer>>
           ELSE /\ access_token' = resp.tenant_access_token
                /\ exchanges' = exchanges + 1
                /\ bearer' = resp.tenant_access_token
                /\ IF op.name = "get_access_token"
                   THEN Return(ReturnToken(resp.tenant_access_token))
                   ELSE /\ pc' = FirstStage(op)
                        /\ UNCHANGED <<result, report>>
    /\ net' = Append(net, AuthRequest)
    /\ UNCHANGED <<cmd, settings, tz, importVars, client, n_ops, op, table_id,
                   page_token, all_records, pages, store>>

\* get_spreadsheet_records, lines 81-86, and get_spreadsheet_sheets, lines
\* 147-152
SheetCheck(resp) ==
    IF ~resp.transport THEN ConnectionError
    ELSE IF RaisesForStatus(resp.status) THEN HTTPError(resp.status)
    ELSE IF ~resp.json THEN JSONDecodeError
    ELSE IF resp.code # 0 THEN SheetInfoFailed(resp.msg)
    ELSE NoError

\* line 88: sheets[0].sheet_id of a successful describe response; an empty
\* list is the index fault
FirstSheet(sheets) ==
    IF sheets = <<>>
    THEN [err |-> IndexError, sheet_id |-> None]
    ELSE [err |-> NoError, sheet_id |-> sheets[1]]

\* lines 73-88: the table is resolved to the first sheet
Describe(resp) ==
    /\ pc = "describe"
    /\ LET err   == SheetCheck(resp)
           first == FirstSheet(resp.sheets)
       IN  IF err # NoError
           THEN Raise(err) /\ UNCHANGED table_id
           ELSE IF first.err # NoError
           THEN Raise(first.err) /\ UNCHANGED table_id
           ELSE /\ table_id' = first.sheet_id
                /\ pc' = "search"
                /\ UNCHANGED <<result, report>>
    /\ net' = Append(net, Request("describe", bearer, op.app_token, None,
                                  None, 0, None, <<>>))
    /\ UNCHANGED <<cmd, settings, tz, importVars, client, access_token,
                   exchanges, n_ops, op, bearer, page_token, all_records,
                   pages, store>>

\* a mutant of SearchCheck: the body code is not looked at
SearchCheckIgnoresCode(resp) ==
    IF ~resp.transport THEN ConnectionError
    ELSE IF RaisesForStatus(resp.status) THEN HTTPError(resp.status)
    ELSE IF ~resp.json THEN JSONDecodeError
    ELSE NoError

\* lines 109-114
SearchCheck(resp) ==
    IF ~resp.transport THEN ConnectionError
    ELSE IF RaisesForStatus(resp.status) THEN HTTPError(resp.status)
    ELSE IF ~resp.json THEN JSONDecodeError
    ELSE IF resp.code # 0 THEN RecordsFailed(resp.msg)
    ELSE NoError

\* a mutant of Accumulate: the new page is put in front
AccumulateInFront(records, items) == items \o records

\* lines 117-118
Accumulate(records, items) == records \o items

\* a mutant of HasNextPage: only an absent token ends the loop
HasNextPageUnlessAbsent(resp) == resp.page_token # None

\* lines 121-122: the loop goes on while the response names a next page
HasNextPage(resp) == Truthy(resp.page_token)

\* lines 102-128: one turn of the pagination loop
SearchPage(resp) ==
    /\ pc = "search"
    /\ \/ Len(pages) < MaxPages
       \/ ~resp.transport
       \/ RaisesForStatus(resp.status)
       \/ ~resp.json
       \/ resp.code # 0
       \/ resp.page_token \in {None, ""}
    /\ LET err == SearchCheck(resp)
       IN  IF err # NoError
           THEN Raise(err) /\ UNCHANGED <<page_token, all_records, pages>>
           ELSE /\ pages' = Append(pages, [items      |-> resp.items,
                                           page_token |-> resp.page_token])
                /\ all_records' = Accumulate(all_records, resp.items)
                /\ IF HasNextPage(resp)
                   THEN /\ page_token' = resp.page_token
                        /\ UNCHANGED <<pc, result, report>>
                   ELSE /\ Return(ReturnList(all_records'))
                        /\ UNCHANGED page_token
    /\ net' = Append(net, Request("search", bearer, op.app_token, table_id,
                                  page_token, op.page_size,
                                  SearchFilter(op.filter_params), <<>>))
    /\ UNCHANGED <<cmd, settings, tz, importVars, client, access_token,
                   exchanges, n_ops, op, bearer, table_id, store>>

\* get_spreadsheet_sheets, lines 140-154
SheetsRequest(resp) ==
    /\ pc = "sheets"
    /\ LET err == SheetCheck(resp)
       IN  IF err # NoError
           THEN Raise(err)
           ELSE Return(ReturnList(resp.sheets))
    /\ net' = Append(net, Request("describe", bearer, op.app_token, None,
                                  None, 0, None, <<>>))
    /\ UNCHANGED <<cmd, settings, tz, importVars, client, access_token,
                   exchanges, n_ops, op, localVars, store>>

\* a mutant of WriteCheck: an error only when both the status and the code
\* are bad
WriteCheckBothBad(resp) ==
    IF ~resp.transport THEN ConnectionError
    ELSE IF ~resp.json THEN JSONDecodeError
    ELSE IF resp.status # 200 /\ resp.code # 0
    THEN InsertFailed(resp.msg, resp.status, BodyOf(resp))
    ELSE NoError

\* a mutant of WriteCheck: only a failed transport is an error
WriteCheckTransportOnly(resp) ==
    IF ~resp.transport THEN ConnectionError ELSE NoError

\* batch_add_record, lines 172-176, and add_spreadsheet_record, lines
\* 206-210: response.json() comes first (lines 173, 207) and raises on a
\* body that is no JSON, whatever the status (there is no
\* raise_for_status()); then success is status 200 together with code 0
WriteCheck(resp) ==
    IF ~resp.transport THEN ConnectionError
    ELSE IF ~resp.json THEN JSONDecodeError
    ELSE IF resp.status # 200 \/ resp.code # 0
    THEN InsertFailed(resp.msg, resp.status, BodyOf(resp))
    ELSE NoError

\* the rows of a write's body
RowsOf(body) == [i \in 1..Len(body) |-> body[i].fields]

\* the store after a write to table tid that it answers with resp
Written(st, tid, body, resp) ==
    IF Stored(resp) /\ tid \in DOMAIN st
    THEN [st EXCEPT ![tid] = @ \o RowsOf(body)]
    ELSE st

\* add_spreadsheet_record, lines 191-212; in import_command the marker
\* insert's return is followed by the success message and the call of
\* batch_add_record (importer.py 245-253)
InsertRequest(resp) ==
    /\ pc = "insert"
    /\ store' = Written(store, op.table_id, op.body, resp)
    /\ LET err == WriteCheck(resp)
       IN  IF err # NoError
           THEN Raise(err) /\ UNCHANGED <<op, localVars>>
           ELSE IF cmd = "import"
           THEN /\ result' = ReturnData(resp.data)
                /\ report' = "inserted"
                /\ Enter(BillingCall(settings, converted_data_list),
                         access_token)
           ELSE Return(ReturnData(resp.data)) /\ UNCHANGED <<op, localVars>>
    /\ net' = Append(net, Request("insert", bearer, op.app_token,
                                  op.table_id, None, 0, None, op.body))
    /\ UNCHANGED <<cmd, settings, tz, importVars, client, access_token,
                   exchanges, n_ops>>

\* batch_add_record, lines 157-178
BatchRequest(resp) ==
    /\ pc = "batch"
    /\ store' = Written(store, op.table_id, op.body, resp)
    /\ LET err == WriteCheck(resp)
       IN  IF err # NoError
           THEN Raise(err)
           ELSE Return(ReturnData(resp.data))
    /\ net' = Append(net, Request("batch", bearer, op.app_token,
                                  op.table_id, None, 0, None, op.body))
    /\ UNCHANGED <<cmd, settings, tz, importVars, client, access_token,
                   exchanges, n_ops, op, localVars>>

(***************************************************************************)
(* The specification.                                                      *)
(***************************************************************************)
Next ==
    \/ \E dry \in BOOLEAN, t \in Nows, exists \in BOOLEAN, made \in BOOLEAN,
          extracted \in BOOLEAN, n_csv \in 0..MaxFiles :
           ImportOpen(dry, t, exists, made, extracted, n_csv)
    \/ \E decoded \in {"gbk", "utf-8", "fail"} : ReadCsvFile(decoded)
    \/ \E ln \in Lines : ProcessLine(ln)
    \/ NextFile
    \/ FinishExtraction
    \/ \E removable \in BOOLEAN : Finally(removable)
    \/ ListStart
    \/ ClientNew
    \/ \E o \in DirectCalls : CallMethod(o)
    \/ \E resp \in AuthResponses : AuthExchange(resp)
    \/ \E resp \in DescribeResponses : Describe(resp)
    \/ \E resp \in SearchResponses : SearchPage(resp)
    \/ \E resp \in DescribeResponses : SheetsRequest(resp)
    \/ \E resp \in WriteResponses : InsertRequest(resp)
    \/ \E resp \in WriteResponses : BatchRequest(resp)

Spec == Init /\ [][Next]_vars

(***************************************************************************)
(* The same program with a store that does not name next pages for ever:   *)
(* a search that is waiting for a page is in the end served a page without *)
(* a next page, unless it ended before.                                    *)
(***************************************************************************)
\* the successful search responses that name no next page
LastPageResponses ==
    {resp \in SearchResponses :
        /\ resp.transport
        /\ ~RaisesForStatus(resp.status)
        /\ resp.json
        /\ resp.code = 0
        /\ resp.page_token \in {None, ""}}

\* the store serves a last page
LastPage == \E resp \in LastPageResponses : SearchPage(resp)

FairSpec == Init /\ [][Next]_vars /\ WF_vars(LastPage)

(***************************************************************************)
(* convert_fields called on its own (importer.py 27-76): the row is any    *)
(* part of a full row, with a date and an amount that parse or do not.     *)
(***************************************************************************)
\* date texts.  Eight parse: the padded form, fields without padding, a tab
\* and a blank for the blank of the format, fullwidth digits, a blank before
\* the day, the first day of year 1 and an evening of the last day of year
\* 9999 (whose timestamp() raises, the second in zones east of UTC only),
\* and a time before the epoch.  Four raise ValueError in strptime: other
\* separators, no text, second 60, a day the month does not have.
DateTexts ==
    { GoodDate,
      BadDate,
      <<>>,
      <<"2", "0", "2", "4", "-", "1", "-", "2", " ", "1", ":", "2", ":", "3">>,
      <<"2", "0", "2", "4", "-", "0", "1", "-", "0", "2", "\t", " ", "1",
        "0", ":", "0", "0", ":", "0", "0">>,
      <<"U+FF12", "U+FF10", "U+FF12", "U+FF14", "-", "0", "1", "-", "1",
        "U+FF12", " ", "1", "U+FF10", ":", "0", "0", ":", "0", "U+FF15">>,
      <<"2", "0", "2", "4", "-", "0", "1", "-", " ", "5", " ", "1", "0",
        ":", "0", "0", ":", "0", "0">>,
      <<"0", "0", "0", "1", "-", "0", "1", "-", "0", "1", " ", "0", "0",
        ":", "0", "0", ":", "0", "0">>,
      <<"9", "9", "9", "9", "-", "1", "2", "-", "3", "1", " ", "2", "0",
        ":", "0", "0", ":", "0", "0">>,
      <<"1", "9", "6", "9", "-", "1", "2", "-", "3", "1", " ", "2", "3",
        ":", "5", "9", ":", "5", "9">>,
      <<"2", "0", "2", "4", "-", "0", "1", "-", "0", "2", " ", "1", "0",
        ":", "0", "0", ":", "6", "0">>,
      <<"2", "0", "2", "4", "-", "0", "2", "-", "3", "0", " ", "1", "0",
        ":", "0", "0", ":", "0", "0">> }

\* amount texts.  Eleven parse: 100.50, -5, .5, exponent forms, -Infinity,
\* nan, an underscore between digits, -0, fullwidth digits, text padded with
\* a tab and a blank.  Five raise ValueError: letters, no text, two
\* underscores running, a leading '\x1c' (which strip() removes and float()
\* does not), two points.
MoneyTexts ==
    { GoodMoney,
      BadMoney,
      <<>>,
      <<"-", "5">>,
      <<".", "5">>,
      <<"1", "e", "3">>,
      <<"1", "E", "-", "2">>,
      <<"-", "I", "n", "f", "i", "n", "i", "t", "y">>,
      <<"n", "a", "n">>,
      <<"1", "_", "0", "0", "0">>,
      <<"-", "0">>,
      <<"U+FF11", "U+FF12", ".", "U+FF15">>,
      <<"\t", "7", " ">>,
      <<"1", "_", "_", "0">>,
      <<"U+001C", "7">>,
      <<"1", ".", "2", ".", "3">>,
      <<"4", "e", "-", "3", "2", "4">>,
      <<"0", ".", "1", "2", "3", "4", "5", "6", "7", "8", "9", "0", "1", "2", "3", "4", "5", "6", "7", "8", "9", "0">>,
      <<"1", ".", "7", "9", "7", "6", "9", "3", "1", "3", "5", "1", "e", "3", "0", "8">> }

FullRows ==
    { [uniqId      |-> Id8,
       date        |-> d,
       money       |-> m,
       name        |-> Memo,
       type        |-> Expense,
       source      |-> Source,
       batchNumber |-> BatchNumberOf(CHOOSE t \in Nows : t.year = 2024)] :
          d \in DateTexts, m \in MoneyTexts }

\* the rows convert_fields is called with: the keys a caller left in
Rows ==
    { [k \in keys |-> row[k]] : row \in FullRows,
                                keys \in SUBSET {"uniqId", "date", "money",
                                                 "name", "type", "source",
                                                 "batchNumber"} }

ConvertInit ==
    /\ cmd = "convert"
    /\ pc = "start"
    /\ settings = Config(None, None, None, None)
    /\ tz \in UtcOffsets
    /\ dry_run = FALSE
    /\ now = CHOOSE t \in Nows : TRUE
    /\ batch_number = <<>>
    /\ temp_dir = "none"
    /\ files_left = 0
    /\ lines_read = 0
    /\ line = <<>>
    /\ \E row \in Rows : data_item_list = <<row>>
    /\ converted_data_list = <<>>
    /\ report = "none"
    /\ client = FALSE
    /\ access_token = None
    /\ exchanges = 0
    /\ n_ops = 0
    /\ op = NoCall
    /\ bearer = None
    /\ table_id = None
    /\ page_token = ""
    /\ all_records = <<>>
    /\ pages = <<>>
    /\ result = NoResult
    /\ net = <<>>
    /\ store = [t \in Tables |-> <<>>]

\* convert_fields(record), record being the one row of data_item_list; the
\* row is read and a new payload is built (lines 38, 49-51, 74-76)
ConvertRow ==
    /\ cmd = "convert"
    /\ pc = "start"
    /\ converted_data_list' = <<convert_fields(data_item_list[1], tz)>>
    /\ pc' = "done"
    /\ UNCHANGED <<cmd, settings, tz, dry_run, now, batch_number, temp_dir,
                   files_left, lines_read, line, data_item_list, report,
                   client, access_token, exchanges, n_ops, op, localVars,
                   result, net, store>>

ConvertNext == ConvertRow

ConvertSpec == ConvertInit /\ [][ConvertNext]_vars

(***************************************************************************)
(* Properties.                                                             *)
(***************************************************************************)
\* a status that raise_for_status turns into an HTTP error
HttpErrorStatus(status) == status \in 400..599

\* a client method has ended and its caller holds the result
Ended == pc \in {"idle", "finally", "done"}

SearchRequests == {i \in DOMAIN net : net[i].ep = "search"}

RECURSIVE ConcatItems(_)
ConcatItems(ps) ==
    IF ps = <<>> THEN <<>> ELSE ps[1].items \o ConcatItems(Tail(ps))

SearchReturned ==
    /\ op.name = "get_spreadsheet_records"
    /\ result.kind = "return"
    /\ Ended

\* C1: a search called with a table_id that returns has received N >= 1
\* successful pages, the first N-1 with a non-empty page_token and the last
\* with none (absent or empty); it returns the pages' items concatenated in
\* page order, nothing reordered or dropped, and has issued exactly N search
\* requests.
PaginationConcatenates ==
    (SearchReturned /\ op.table_id \notin {None, ""}) =>
        /\ Len(pages) >= 1
        /\ \A i \in 1..(Len(pages) - 1) : pages[i].page_token \notin {None, ""}
        /\ pages[Len(pages)].page_token \in {None, ""}
        /\ result.value = ConcatItems(pages)
        /\ Cardinality(SearchRequests) = Len(pages)
        /\ \A i \in DOMAIN net : net[i].ep \in {"auth", "search"}

\* C1 witness: a search with a table_id returned three pages' items, the
\* same items twice among them
PaginationWitness ==
    /\ SearchReturned
    /\ op.table_id = "tblBatch"
    /\ Len(pages) = 3
    /\ result.value = <<"r1", "r2", "r1", "r2", "r1">>

\* the search responses that carry a non-zero body code
NonZeroCodePages ==
    {resp \in SearchResponses :
        resp.transport /\ resp.json /\ resp.code # 0}

\* a step that is a search page answered with a non-zero code ends as C2
\* says
FailedPageOutcomeAsClaimed ==
    pc = "search" =>
        \A resp \in NonZeroCodePages :
            SearchPage(resp) =>
                /\ result'.kind = "raise"
                /\ result'.value = <<>>
                /\ pc' \in {"idle", "done"}
                /\ Len(net') = Len(net) + 1

\* C2: when a page of a search is answered with a non-zero body code, the
\* search ends in an exception, its caller receives no items, and control
\* leaves the pagination loop, so no further page is requested.
FailedPageAborts == [][FailedPageOutcomeAsClaimed]_vars

\* C2 witness: the second page failed with a non-zero code after a first
\* page that delivered items
FailedPageWitness ==
    /\ op.name = "get_spreadsheet_records"
    /\ result.kind = "raise"
    /\ result.error.type = "RecordsFailed"
    /\ Len(pages) = 1
    /\ all_records # <<>>
    /\ result.value = <<>>
    /\ Cardinality(SearchRequests) = 2

\* the write responses that arrive (the transport did not fail)
AnsweredWrites == {resp \in WriteResponses : resp.transport}

\* the answer has a body code (its body is JSON), and the code is c
BodyCodeIs(resp, c) == resp.json /\ resp.code = c

\* the answer has a body code (its body is JSON), and the code is not 0
BodyCodeNonZero(resp) == resp.json /\ resp.code # 0

\* a step that is a write answered by resp ends as C3 says
WriteOutcomeAsClaimed ==
    pc \in {"insert", "batch"} =>
        \A resp \in AnsweredWrites :
            (InsertRequest(resp) \/ BatchRequest(resp)) =>
                /\ result'.kind \in {"return", "raise"}
                /\ result'.kind = "return" <=>
                       (resp.status = 200 /\ BodyCodeIs(resp, 0))
                /\ result'.kind = "return" => result'.data = resp.data
                /\ (\/ resp.status = 200 /\ BodyCodeNonZero(resp)
                    \/ resp.status # 200 /\ BodyCodeIs(resp, 0)
                    \/ resp.status # 200 /\ BodyCodeNonZero(resp))
                       => /\ result'.kind = "raise"
                          /\ result'.error.type = "InsertFailed"
                          /\ result'.error.msg = resp.msg
                          /\ result'.error.status = resp.status
                          /\ result'.error.body =
                                 [code |-> resp.code, msg |-> resp.msg,
                                  data |-> resp.data]
                /\ ~resp.json => /\ result'.kind = "raise"
                                 /\ result'.error = JSONDecodeError

\* C3: a write (single or batch insert) that gets a response returns the
\* response's data exactly when the status is 200 and the body code is 0;
\* with status 200 and a body code that is not 0, and with another status
\* and any body code, it raises the insert error carrying the remote
\* message, the status and the whole response body.  An answer whose body
\* is no JSON has no body code: whatever its status, the write returns
\* nothing for it and raises response.json()'s error, which is read before
\* the status is looked at (feishu_doc.py 173, 207).
WriteSucceedsIffBoth == [][WriteOutcomeAsClaimed]_vars

\* C3 witness: a batch insert answered with status 200 and a non-zero code
\* raised the insert error
WriteWitness ==
    /\ op.name = "batch_add_record"
    /\ result.kind = "raise"
    /\ result.error.type = "InsertFailed"
    /\ result.error.status = 200
    /\ result.error.body.code # 0

\* C4: within one client, at most one credential exchange is ever accepted:
\* after the first get_access_token that returns, every later call (direct
\* or inside another method) uses the cached value and asks the remote for
\* no token.
TokenExchangedOnce == exchanges <= 1

\* once a non-empty token is cached, no step changes it and no step asks the
\* remote for a token
CachedTokenKept ==
    [][access_token \notin {None, ""} =>
          /\ access_token' = access_token
          /\ exchanges' = exchanges]_vars

RequestsTo(ep) == {i \in DOMAIN net : net[i].ep = ep}

\* the run timestamp of every clock reading in every zone
RunMillis ==
    [t \in Nows, off \in UtcOffsets |-> Millis(Timestamp(t, off))]

\* the marker row of the running import, and the table it is written to
MarkerRow ==
    [DaoRuPiCiBianHao |-> StrV(batch_number), ShiJian |-> RunMillis[now, tz]]

MarkerStored ==
    \E i \in DOMAIN store[settings.FEISHU_TABLE_ID_BATCH_NUMBER] :
        store[settings.FEISHU_TABLE_ID_BATCH_NUMBER][i] = MarkerRow

\* C5: an import requests only credential exchanges, the marker insert and
\* the batch insert; the batch insert is requested after the marker insert,
\* and only once the marker row is stored; nothing is requested after the
\* batch insert, whether it succeeds or fails, so the marker row stays.
ImportWritesInOrder ==
    cmd = "import" =>
        /\ \A i \in DOMAIN net : net[i].ep \in {"auth", "insert", "batch"}
        /\ Cardinality(RequestsTo("insert")) <= 1
        /\ Cardinality(RequestsTo("batch")) <= 1
        /\ \A b \in RequestsTo("batch") :
              /\ \E i \in RequestsTo("insert") : i < b
              /\ b = Len(net)
              /\ MarkerStored

\* C5 witness: the batch insert of an import failed after the marker insert
\* succeeded; the run is over and the marker row is in its table
ImportNoRollbackWitness ==
    /\ cmd = "import"
    /\ pc = "done"
    /\ result.kind = "raise"
    /\ result.error.type = "InsertFailed"
    /\ net[Len(net)].ep = "batch"
    /\ data_item_list # <<>>
    /\ MarkerStored

NothingSent ==
    /\ net = <<>>
    /\ ~client
    /\ exchanges = 0
    /\ \A t \in DOMAIN store : store[t] = <<>>

\* C6: a dry-run import creates no client and sends no request, whatever the
\* file and the settings.
DryRunSendsNothing == (cmd = "import" /\ dry_run) => NothingSent

\* C6 witness: a dry run over a ledger with rows, without credentials, ended
DryRunWitness ==
    /\ cmd = "import"
    /\ dry_run
    /\ pc = "done"
    /\ report = "dry_run"
    /\ settings.FEISHU_APP_ID = None
    /\ Len(converted_data_list) >= 2

\* one of app id, app secret and app token is missing
CredentialMissing ==
    \E k \in {"FEISHU_APP_ID", "FEISHU_APP_SECRET", "FEISHU_APP_TOKEN"} :
        settings[k] \in {None, ""}

\* C7: with app id, app secret or app token missing, an import or a list run
\* creates no client and sends no request; a run that gets to the
\* configuration check (a list run; an import that is no dry run and whose
\* extraction did not end it) ends with the configuration error.
MissingConfigFailsFast ==
    (cmd \in {"import", "list"} /\ CredentialMissing) =>
        /\ NothingSent
        /\ (/\ pc = "done"
            /\ \/ cmd = "list"
               \/ /\ ~dry_run
                  /\ report \notin {"file_missing", "exception", "no_csv",
                                    "read_error"})
           => report = "config_error"

\* C7 witness: an import that is no dry run, with rows extracted and only
\* the app token missing, ended with the configuration error
MissingConfigWitness ==
    /\ cmd = "import"
    /\ ~dry_run
    /\ pc = "done"
    /\ report = "config_error"
    /\ settings.FEISHU_APP_ID = "app"
    /\ settings.FEISHU_APP_SECRET = "secret"
    /\ settings.FEISHU_APP_TOKEN = None
    /\ data_item_list # <<>>

\* the describe responses that succeed with an empty sheet list
EmptySheetAnswers ==
    {resp \in DescribeResponses :
        resp.transport /\ ~HttpErrorStatus(resp.status) /\ resp.json
            /\ resp.code = 0 /\ resp.sheets = <<>>}

EmptySheetsOutcomeAsClaimed ==
    pc = "describe" =>
        \A resp \in EmptySheetAnswers :
            Describe(resp) =>
                /\ result'.kind = "raise"
                /\ result'.error.type = "SheetInfoFailed"
                /\ RequestsTo("search")' = {}

\* C8: a search without table_id whose describe response succeeds with an
\* empty sheet list fails with the sheet-resolution error, not with an index
\* fault, and requests no records.
EmptySheetsDeclaredError == [][EmptySheetsOutcomeAsClaimed]_vars

\* the credential responses that carry a non-zero body code
NonZeroCodeAuth ==
    {resp \in AuthResponses : resp.transport /\ resp.json /\ resp.code # 0}

AuthFailureAsFirstClaimed ==
    pc = "auth" =>
        \A resp \in NonZeroCodeAuth :
            AuthExchange(resp) =>
                /\ result'.kind = "raise"
                /\ result'.error.type = "TokenFailed"
                /\ result'.error.msg = resp.msg
                /\ access_token' \in {None, ""}
                /\ pc' \in {"idle", "finally", "done"}
                /\ net' = Append(net, AuthRequest)

\* C9 as first stated: whenever the credential exchange is answered with a
\* non-zero body code, get_access_token fails with the auth error carrying
\* the remote message, the cache stays empty and the method that needed the
\* token requests nothing.
AuthFailureCarriesMessage == [][AuthFailureAsFirstClaimed]_vars

AuthFailureAsAmended ==
    pc = "auth" =>
        \A resp \in NonZeroCodeAuth :
            AuthExchange(resp) =>
                /\ result'.kind = "raise"
                /\ IF HttpErrorStatus(resp.status)
                   THEN /\ result'.error.type = "HTTPError"
                        /\ result'.error.status = resp.status
                   ELSE /\ result'.error.type = "TokenFailed"
                        /\ result'.error.msg = resp.msg
                /\ access_token' \in {None, ""}
                /\ pc' \in {"idle", "finally", "done"}
                /\ net' = Append(net, AuthRequest)

\* C9 amended: whenever the credential exchange is answered with a non-zero
\* body code, get_access_token fails, the cache stays empty and the method
\* that needed the token requests nothing; the failure is the HTTP error of
\* raise_for_status when the transport status is one of 400 to 599, and the
\* auth error carrying the remote message with any other status.
AuthFailureLeavesCacheEmpty == [][AuthFailureAsAmended]_vars

\* C9 witness: a batch insert on an empty cache was refused its token with
\* the remote message; the only request sent is the credential exchange
AuthFailureWitness ==
    /\ op.name = "batch_add_record"
    /\ result.kind = "raise"
    /\ result.error.type = "TokenFailed"
    /\ result.error.msg = "denied"
    /\ access_token = None
    /\ net = <<AuthRequest>>

\* the two kind labels, income and expense
TwoKinds == {<<"S", "R">>, <<"Z", "C">>}

\* the trimmed text of column 10 of a line that has one
KindText(ln) == Strip(Split(Strip(ln))[11])

HasKindColumn(ln) == Len(Split(Strip(ln))) >= 11

RowKindsAsClaimed ==
    /\ \A i \in DOMAIN data_item_list' : data_item_list'[i].type \in TwoKinds
    /\ (/\ lines_read' = lines_read + 1
        /\ HasKindColumn(line')
        /\ KindText(line') \notin TwoKinds)
           => data_item_list' = data_item_list

\* C10: every row of the row list has one of the two kinds, after any number
\* of lines and files, and a line whose trimmed column 10 is any other text,
\* the empty text included, adds no row.
RowKindsRecognized == [][RowKindsAsClaimed]_vars

\* C10 witness: of three lines read, an income and an expense row were kept
\* and the last line, of another kind, added nothing
RowKindsWitness ==
    /\ lines_read = 3
    /\ Len(data_item_list) = 2
    /\ {data_item_list[1].type, data_item_list[2].type} = TwoKinds
    /\ HasKindColumn(line)
    /\ KindText(line) = <<"Q", "T">>

\* the text begins with eight digits: decimal digits as the \d of the
\* pattern ^\d{8} reads them, the ASCII digits or those of another script
BeginsWithEightDigits(s) ==
    /\ Len(s) >= 8
    /\ \A i \in 1..8 : s[i] \in Digits

NoisyLineAsClaimed ==
    (/\ lines_read' = lines_read + 1
     /\ ~BeginsWithEightDigits(Strip(line')))
        => data_item_list' = data_item_list

\* C11: a line that, trimmed, does not begin with eight digits leaves the
\* row list as it was.
NoisyLinesDropped == [][NoisyLineAsClaimed]_vars

\* C11 witness: after a row was kept, a line with eleven columns and the
\* expense kind, whose id has only seven digits, added nothing
NoisyLineWitness ==
    /\ lines_read = 2
    /\ Len(data_item_list) = 1
    /\ line = Join(Ledger(Id7, GoodDate, GoodMoney, Expense))
    /\ pc = "lines"

ColumnsAsClaimed ==
    lines_read' = lines_read + 1 =>
        \A cols \in {Split(Strip(line'))} :
            \A eight \in {BeginsWithEightDigits(Strip(line'))} :
                /\ pc' = "lines"
                /\ report' = report
                /\ result' = result
                /\ (eight /\ Len(cols) < 11)
                       => data_item_list' = data_item_list
                /\ (eight /\ Len(cols) >= 11 /\ Strip(cols[11]) \in TwoKinds)
                       => data_item_list' # data_item_list
                /\ data_item_list' # data_item_list =>
                       /\ Len(cols) >= 11
                       /\ Len(data_item_list') = Len(data_item_list) + 1
                       /\ SubSeq(data_item_list', 1, Len(data_item_list))
                              = data_item_list
                       /\ \A last \in {data_item_list'[Len(data_item_list')]} :
                              /\ last.uniqId = Strip(cols[1])
                              /\ last.date = Strip(cols[4])
                              /\ last.name = Strip(cols[9])
                              /\ last.money = Strip(cols[10])
                              /\ last.type = Strip(cols[11])

\* C12: a line with the eight-digit prefix and fewer than eleven columns adds
\* no row and raises nothing; a line that adds a row has eleven columns or
\* more, and the row's id, date, memo, amount and kind are the trimmed
\* columns 0, 3, 8, 9 and 10 of the line.
ColumnsByPosition == [][ColumnsAsClaimed]_vars

\* C12 witness: a row was taken by position from a line of thirteen columns,
\* and then a line of ten columns with the eight-digit prefix added nothing
ColumnsWitness ==
    /\ lines_read = 2
    /\ Len(data_item_list) = 1
    /\ data_item_list[1].uniqId = IdFullwidth
    /\ data_item_list[1].date = BadDate
    /\ data_item_list[1].name = Memo
    /\ data_item_list[1].money = BadMoney
    /\ data_item_list[1].type = Income
    /\ line = Join(SubSeq(Ledger(Id8, GoodDate, GoodMoney, Expense), 1, 10))

\* the batch number of the run is on every row, every payload, every marker
\* row requested and every row sent to the billing table
BatchNumberCarried ==
    /\ \A i \in DOMAIN data_item_list :
          data_item_list[i].batchNumber = batch_number
    /\ \A i \in DOMAIN converted_data_list :
          /\ "DaoRuPiCiHao" \in DOMAIN converted_data_list[i].fields
          /\ converted_data_list[i].fields["DaoRuPiCiHao"].kind = "str"
          /\ converted_data_list[i].fields["DaoRuPiCiHao"].text = batch_number
    /\ \A i \in DOMAIN net :
          /\ net[i].ep = "insert" =>
                /\ Len(net[i].body) = 1
                /\ net[i].body[1].fields.DaoRuPiCiBianHao.text = batch_number
          /\ net[i].ep = "batch" =>
                \A j \in DOMAIN net[i].body :
                    net[i].body[j].fields["DaoRuPiCiHao"].text = batch_number

BatchNumberAsClaimed ==
    /\ (cmd = "import" /\ batch_number # <<>>) => batch_number' = batch_number
    /\ cmd' = "import" => BatchNumberCarried'

\* C13: in an import run the batch number, once generated, never changes;
\* every extracted row, every mapped payload, the marker row and the rows of
\* the batch insert carry it.
BatchNumberConstant == [][BatchNumberAsClaimed]_vars

\* C13 witness: an import over two lines that kept two rows has inserted its
\* marker row and sent both payloads
BatchNumberWitness ==
    /\ cmd = "import"
    /\ pc = "done"
    /\ result.kind = "return"
    /\ Len(data_item_list) = 2
    /\ Len(store["tblBilling"]) = 2
    /\ net[Len(net)].ep = "batch"
    /\ batch_number = <<"3", "8", "0", "5", "2", "5", "_",
                        "2", "0", "5", "5", "1", "7">>

\* the rename table as pairs of a row key and its remote name
RenamePairs ==
    { <<"uniqId", "WeiYiZiDuan">>, <<"date", "RiQi">>, <<"money", "JinE">>,
      <<"name", "BeiZhu">>, <<"type", "ShouZhi">>,
      <<"batchNumber", "DaoRuPiCiHao">> }

MappedKeysAsClaimed ==
    (cmd = "convert" /\ pc = "start" /\ pc' = "done") =>
        /\ data_item_list' = data_item_list
        /\ Len(converted_data_list') = 1
        /\ DOMAIN converted_data_list'[1] = {"fields"}
        /\ DOMAIN converted_data_list'[1].fields =
               {p[2] : p \in {q \in RenamePairs :
                                 q[1] \in DOMAIN data_item_list[1]}}

\* C14: the keys of a mapped payload's fields are exactly the remote names
\* of the rename-table keys the row has; other keys of the row (source) do
\* not appear, absent keys are not defaulted, and the row is left as it was.
MappedKeysExact == [][MappedKeysAsClaimed]_vars

\* C14 witness: a row holding only id, amount and source was mapped to a
\* payload holding only the remote names of id and amount
MappedKeysWitness ==
    /\ cmd = "convert"
    /\ pc = "done"
    /\ DOMAIN data_item_list[1] = {"uniqId", "money", "source"}
    /\ DOMAIN converted_data_list[1].fields = {"WeiYiZiDuan", "JinE"}

LenientAsClaimed ==
    (cmd = "convert" /\ pc = "start" /\ pc' = "done") =>
        \A row \in {data_item_list[1]} :
            \A out \in {converted_data_list'[1]} :
                /\ DOMAIN out = {"fields"}
                /\ "date" \in DOMAIN row =>
                      \A date \in {out.fields["RiQi"]} :
                          /\ ~Strptime(row.date).ok => date.kind = "str"
                          /\ date.kind \in {"str", "int"}
                          /\ date.kind = "str" => date.text = row.date
                /\ "money" \in DOMAIN row =>
                      \A money \in {out.fields["JinE"]} :
                          /\ ~ParseFloat(row.money).ok => money.kind = "str"
                          /\ money.kind \in {"str", "float"}
                          /\ money.kind = "str" => money.text = row.money

\* C19: convert_fields on a row of texts always returns a payload of shape
\* {fields: ...}; a date that does not parse against YYYY-MM-DD HH:MM:SS
\* stays the original text and an amount that does not parse as a number
\* stays the original text, each whatever the other does; a field that is
\* not kept as its text is a number.
LenientMapping == [][LenientAsClaimed]_vars

\* C19 witness: of a row whose date does not parse and whose amount does,
\* the payload keeps the date text and holds the amount 100.5 as a number
LenientWitness ==
    /\ cmd = "convert"
    /\ pc = "done"
    /\ DOMAIN data_item_list[1] = {"date", "money"}
    /\ data_item_list[1].date = BadDate
    /\ data_item_list[1].money = GoodMoney
    /\ converted_data_list[1].fields["RiQi"].kind = "str"
    /\ converted_data_list[1].fields["RiQi"].text = BadDate
    /\ converted_data_list[1].fields["JinE"].kind = "float"
    /\ converted_data_list[1].fields["JinE"].rest = 201
    /\ converted_data_list[1].fields["JinE"].scale = 0 - 1

\* a request that is answered resp has failed: no response, an HTTP error
\* status, a body that is no JSON, a non-zero body code
Failed(resp) ==
    \/ ~resp.transport
    \/ HttpErrorStatus(resp.status)
    \/ ~resp.json
    \/ resp.code # 0

FailedAuthAnswers == {resp \in AuthResponses : Failed(resp)}

FailedDescribeAnswers == {resp \in DescribeResponses : Failed(resp)}

FailedSearchAnswers == {resp \in SearchResponses : Failed(resp)}

\* a write has also failed when its status is not 200
FailedWriteAnswers ==
    {resp \in WriteResponses : Failed(resp) \/ resp.status # 200}

\* the run is over but for its cleanup
RunEnding == pc' \in {"finally", "done"} /\ Len(net') = Len(net) + 1

\* no request of the run is made twice: one describe, one marker insert, one
\* batch insert, one credential exchange per operation, and one search
\* request per page received (and one more for a page that failed)
NothingRepeated ==
    /\ Cardinality(RequestsTo("describe")) <= 1
    /\ Cardinality(RequestsTo("insert")) <= 1
    /\ Cardinality(RequestsTo("batch")) <= 1
    /\ Cardinality(RequestsTo("search")) <= Len(pages) + 1
    /\ \A i, j \in RequestsTo("auth") :
          i < j => \E k \in RequestsTo("insert") : i < k /\ k < j

NoRetryAsClaimed ==
    cmd \in {"import", "list"} =>
        /\ pc \in {"finally", "done"} => net' = net
        /\ pc = "auth" =>
              \A resp \in FailedAuthAnswers : AuthExchange(resp) => RunEnding
        /\ pc = "describe" =>
              \A resp \in FailedDescribeAnswers : Describe(resp) => RunEnding
        /\ pc = "search" =>
              \A resp \in FailedSearchAnswers : SearchPage(resp) => RunEnding
        /\ pc = "insert" =>
              \A resp \in FailedWriteAnswers :
                  InsertRequest(resp) => RunEnding
        /\ pc = "batch" =>
              \A resp \in FailedWriteAnswers : BatchRequest(resp) => RunEnding
        /\ NothingRepeated'

\* C15: in an import or list run, a request that fails (credential exchange,
\* describe, search page, marker insert, batch insert) ends the run's remote
\* work: the run goes to its end, where no request is made, so the failed
\* request is not made again and no other follows; and no request of an
\* operation is made twice.
NoRetryNoContinuation == [][NoRetryAsClaimed]_vars

\* C15 witness: a list run without a table id exchanged credentials,
\* described the spreadsheet, got one page, and ended when the second page
\* failed: four requests, no fifth
NoRetryWitness ==
    /\ cmd = "list"
    /\ pc = "done"
    /\ result.kind = "raise"
    /\ Len(net) = 4
    /\ net[1].ep = "auth"
    /\ net[2].ep = "describe"
    /\ net[3].ep = "search"
    /\ net[4].ep = "search"
    /\ Len(pages) = 1

\* the successful search responses
GoodPageResponses ==
    {resp \in SearchResponses :
        /\ resp.transport
        /\ ~HttpErrorStatus(resp.status)
        /\ resp.json
        /\ resp.code = 0}

LoopExitAsClaimed ==
    pc = "search" =>
        /\ \A resp \in GoodPageResponses :
              SearchPage(resp) =>
                  IF resp.page_token \in {None, ""}
                  THEN /\ pc' # "search"
                       /\ result'.kind = "return"
                  ELSE /\ pc' = "search"
                       /\ page_token' = resp.page_token
                       /\ result' = result
        /\ pc' # "search" =>
              \/ result'.kind = "raise"
              \/ /\ result'.kind = "return"
                 /\ pages' # <<>>
                 /\ pages'[Len(pages')].page_token \in {None, ""}

\* C16: a successful page with an absent or empty page_token ends the
\* pagination loop with the search's return; a successful page with any
\* other page_token, the one just sent included, keeps the loop going with
\* that token; the loop is left in no other way than that return or a
\* failure; and when the store in the end serves a page without a next page,
\* a search in its loop leaves it.
PaginationLoopExits ==
    /\ [][LoopExitAsClaimed]_vars
    /\ (pc = "search") ~> (pc # "search")

\* C16 witness: the store has answered the token p1 twice running, and the
\* search, none the wiser, is about to send p1 again
PaginationLoopWitness ==
    /\ pc = "search"
    /\ Len(pages) = 2
    /\ pages[1].page_token = "p1"
    /\ pages[2].page_token = "p1"
    /\ page_token = "p1"
    /\ net[Len(net)].ep = "search"
    /\ net[Len(net)].page_token = "p1"

\* where in net the search requests of the running search begin, if they are
\* the last requests of net
FirstSearch == Len(net) - Cardinality(RequestsTo("search")) + 1

\* C17: the search requests of one search follow one another with nothing
\* between them; the first carries an empty page_token and each later one the
\* page_token of the response before it; a request is sent only when every
\* earlier one has been answered; page_size, filter, table and bearer token
\* are the same in all of them (the filter is the caller's, and none when
\* the caller gave none or an empty one).
PaginationSequential ==
    op.name = "get_spreadsheet_records" =>
        /\ RequestsTo("search") = FirstSearch..Len(net)
        /\ Cardinality(RequestsTo("search")) <= Len(pages) + 1
        /\ pc = "search" => Cardinality(RequestsTo("search")) = Len(pages)
        /\ \A i \in RequestsTo("search") :
              /\ net[i].page_token =
                     (IF i = FirstSearch THEN ""
                      ELSE pages[i - FirstSearch].page_token)
              /\ net[i].page_size = op.page_size
              /\ net[i].filter = net[FirstSearch].filter
              /\ net[i].filter = (IF op.filter_params \in {None, ""} THEN None
                                  ELSE op.filter_params)
              /\ net[i].app_token = op.app_token
              /\ net[i].table = net[FirstSearch].table
              /\ net[i].bearer = net[FirstSearch].bearer
              /\ op.table_id \notin {None, ""} => net[i].table = op.table_id

\* C17 witness: a filtered search has sent three requests, with an empty
\* token, then p1, then p2
PaginationSequentialWitness ==
    /\ op.name = "get_spreadsheet_records"
    /\ op.filter_params = "flt"
    /\ Cardinality(RequestsTo("search")) = 3
    /\ net[FirstSearch].page_token = ""
    /\ net[FirstSearch + 1].page_token = "p1"
    /\ net[FirstSearch + 2].page_token = "p2"
    /\ net[FirstSearch + 2].filter = "flt"

\* C18 as first stated: an import run that has ended has left no temporary
\* directory: there never was one (the file was missing), or it is removed.
TempDirAlwaysRemoved ==
    (cmd = "import" /\ pc = "done") => temp_dir \in {"none", "removed"}

TempDirAsAmended ==
    /\ (cmd' = "import" /\ pc' = "done") =>
          /\ temp_dir' # "created"
          /\ temp_dir' = "none" => report' \in {"file_missing", "exception"}
    /\ (cmd = "import" /\ pc = "finally" /\ temp_dir = "created") =>
          \A removable \in BOOLEAN :
              Finally(removable) => (temp_dir' = "removed" <=> removable)

\* C18 amended: on every exit path of an import on which the temporary
\* directory was created, the finally clause has called rmtree on it by the
\* time the run ends; the directory is removed exactly when that removal
\* succeeds, and a removal that fails is ignored and leaves it in place.
TempDirRemovalAttempted == [][TempDirAsAmended]_vars

\* C18 witness: an import whose batch insert failed has ended with its
\* temporary directory removed
TempDirWitness ==
    /\ cmd = "import"
    /\ pc = "done"
    /\ report = "exception"
    /\ result.kind = "raise"
    /\ net # <<>>
    /\ net[Len(net)].ep = "batch"
    /\ temp_dir = "removed"

ZeroRowsAsClaimed ==
    cmd = "import" =>
        /\ (/\ pc = "lines"
            /\ pc' \notin {"lines", "read"}
            /\ ~dry_run
            /\ ~CredentialMissing)
               => /\ pc' = "auth"
                  /\ client'
                  /\ op'.name = "add_spreadsheet_record"
                  /\ op'.table_id = settings.FEISHU_TABLE_ID_BATCH_NUMBER
                  /\ op'.body = <<[fields |-> MarkerRow]>>
        /\ (pc = "insert" /\ result'.kind = "return")
               => /\ pc' \in {"auth", "batch"}
                  /\ op'.name = "batch_add_record"
                  /\ op'.table_id = settings.FEISHU_TABLE_ID_BILLING
                  /\ op'.body = converted_data_list
                  /\ Len(op'.body) = Len(data_item_list)
        /\ (pc = "batch" /\ Len(net') = Len(net) + 1)
               => /\ net'[Len(net')].ep = "batch"
                  /\ net'[Len(net')].body = converted_data_list

\* C20: an import that is no dry run and has its configuration calls the
\* marker insert when extraction ends, however many rows there are, and
\* after a successful marker insert requests the batch insert with all the
\* payloads; with no rows that is a marker row and a batch insert of an
\* empty list.
ZeroRowsStillWritten == [][ZeroRowsAsClaimed]_vars

\* C20 witness: an import that read lines and kept none has ended with its
\* marker row stored, an empty batch insert sent and accepted, and no
\* ledger row stored
ZeroRowsWitness ==
    /\ cmd = "import"
    /\ pc = "done"
    /\ lines_read >= 1
    /\ data_item_list = <<>>
    /\ MarkerStored
    /\ net[Len(net)].ep = "batch"
    /\ net[Len(net)].body = <<>>
    /\ result.kind = "return"
    /\ store["tblBilling"] = <<>>

============================================================================
